---- MODULE Spec2Model ----
(***************************************************************************)
(* Model of the retrying transaction executor of arsham/dbtools (v4):      *)
(* dbtools.New, the configuration options and PGX.Transaction together     *)
(* with PGX.rollbackWithErr.  The retry scheduler (retry.Retry.DoContext)   *)
(* and the database (Pool.Begin, Tx.Commit, Tx.Rollback) are collaborators: *)
(* the database answers are nondeterministic, the scheduler follows the    *)
(* contract the package documents.                                         *)
(***************************************************************************)
EXTENDS Integers, Sequences, FiniteSets, TLC

\* ------------------------------------------------------------------ bounds
\* Largest attempt budget a caller configures.
MaxAttempts == 3
\* Largest number of step functions passed to one Transaction call.
MaxFns == 2
\* Longest list of configuration options passed to New.
MaxConf == 2

\* --------------------------------------------------------- program constants
\* Default grace period of New, in milliseconds (30 * time.Second).
DefaultGracePeriod == 30000
\* Default delay of New, in milliseconds (300 * time.Millisecond).
DefaultDelay == 300

VARIABLES
    conn,     \* the connection provider handed to New: "pool" or "nil"
    conf,     \* the options handed to New, in order
    kinds,    \* what the caller's step functions may do when invoked
    pgx,      \* the executor: NoPGX or [pool, loop, gracePeriod]
    newErr,   \* the error New returned
    pc,       \* position: "start", "noexec", "ready", "loop", "steps", "done", "panicked"
    ctx,      \* the caller's context: "live" or "canceled"
    nfns,     \* number of step functions of the running call
    i,        \* the scheduler's loop index (attempts finished so far)
    idx,      \* index of the next step function of the running attempt
    tx,       \* the open transaction handle (attempt number) or 0
    err,      \* the error of the most recent attempt (scheduler's err)
    ret,      \* the value Transaction returned
    errs,     \* history: the error each attempt closure returned
    log,      \* history: calls made to the collaborators and the steps
    calls,    \* concurrent invocations: per goroutine [pc, ctx, nfns, i, idx, tx, out]
    opened,   \* concurrent invocations: number of handles the pool has handed out
    uses,     \* concurrent invocations: history, the set of [g, a, op, h] handle uses
    vr,       \* dbtesting: the valueRecorder map and the history of calls on it
    rt,       \* legacy Retry: the arguments, the loop variables and the history of fn calls
    prev,     \* history: the executor before and the attempts of the earlier Transaction calls
    wt        \* legacy WithTransaction / RetryTransaction: the running call and the history of its calls

vars == <<conn, conf, kinds, pgx, newErr, pc, ctx, nfns, i, idx, tx, err, ret, errs, log, calls, opened, uses, vr, rt, prev, wt>>

\* The state of the helpers that stand beside the executor.
auxVars == <<vr, rt, prev, wt>>
\* No recorder has been made, Retry has not been called.
NoRecorder == [made |-> FALSE, m |-> <<>>, hist |-> <<>>]
NoRetry == [pc |-> "idle", retries |-> 0, delay |-> 0, i |-> 0, err |-> "nil", ret |-> "nil", hist |-> <<>>]

\* The state of one invocation: of the single call the actions New ..
\* Commit follow, and of the goroutines calling Transaction concurrently.
coreVars == <<conn, conf, kinds, pgx, newErr, pc, ctx, nfns, i, idx, tx, err, ret, errs, log>>
concVars == <<calls, opened, uses>>

\* The goroutines calling Transaction on one executor.
Goroutines == {1, 2}
\* Largest attempt budget of the executor the goroutines share.
ConcAttempts == 2
\* Largest number of step functions passed to one concurrent call.
ConcFns == 1
\* A goroutine that has not called Transaction.
IdleCall == [pc |-> "idle", ctx |-> "live", nfns |-> 0, i |-> 0, idx |-> 0, tx |-> 0, out |-> "-"]
NoCalls == [g \in Goroutines |-> IdleCall]

\* ------------------------------------------------------------ error values
\* An error is a tree: k names the error (or its wrapping message) and
\* of lists the errors it wraps (what Unwrap returns).
Nil == [k |-> "nil", of |-> <<>>]
Leaf(id) == [k |-> id, of |-> <<>>]
ErrEmptyDatabase == Leaf("ErrEmptyDatabase")
errPanic == Leaf("errPanic")
Canceled == Leaf("context.Canceled")
\* Neither WithTransaction nor RetryTransaction has been called.
NoWT ==
    [pc |-> "idle", mode |-> "-", ctx |-> "live", pre |-> "live", retries |-> 0, nfns |-> 0, i |-> 0, idx |-> 0,
     tx |-> FALSE, err |-> Nil, ret |-> Nil, log |-> <<>>]

\* fmt.Errorf(msg + ": %w", e)
Wrapf(msg, e) == [k |-> msg, of |-> <<e>>]

\* &retry.StopError{Err: e}
StopError(e) == [k |-> "StopError", of |-> <<e>>]

\* errors.Join(a, b): nil arguments are dropped, nil when both are nil.
Join(a, b) ==
    IF a = Nil /\ b = Nil THEN Nil
    ELSE [k |-> "join", of |-> (IF a = Nil THEN <<>> ELSE <<a>>) \o (IF b = Nil THEN <<>> ELSE <<b>>)]

\* errors.Is(e, target) for a sentinel target named id.
RECURSIVE Is(_, _)
Is(e, id) == e.k = id \/ \E n \in 1..Len(e.of) : Is(e.of[n], id)

\* errors.As(e, &stop) with stop a *retry.StopError: the first StopError in
\* the depth-first walk of the tree, Nil when there is none.
RECURSIVE FindStop(_)
FirstStop(s) == IF \E n \in 1..Len(s) : s[n] # Nil
                THEN s[CHOOSE n \in 1..Len(s) : s[n] # Nil /\ \A m \in 1..(n-1) : s[m] = Nil]
                ELSE Nil
FindStop(e) ==
    IF e.k = "StopError" THEN e
    ELSE FirstStop([n \in 1..Len(e.of) |-> FindStop(e.of[n])])

\* ------------------------------------------------------------ configuration
\* The executor before construction / when New failed.
NoPGX == [pool |-> "none", loop |-> [Attempts |-> 0, Delay |-> 0, Method |-> "nil"], gracePeriod |-> 0]

\* &dbtools.PGX{}: the zero value, no pool, zero retry policy.
ZeroPGX == [pool |-> "nil", loop |-> [Attempts |-> 0, Delay |-> 0, Method |-> "nil"], gracePeriod |-> 0]

\* Retry(attempts, delay)
Retry(n, d) == [opt |-> "Retry", n |-> n, d |-> d, m |-> "-"]
\* WithRetry(retry.Retry{Attempts: n, Delay: d, Method: m})
WithRetry(n, d, m) == [opt |-> "WithRetry", n |-> n, d |-> d, m |-> m]
\* GracePeriod(delay)
GracePeriod(d) == [opt |-> "GracePeriod", n |-> 0, d |-> d, m |-> "-"]

\* Variant: WithRetry leaves the delay method alone when the policy it is
\* given has none.
ApplyConfKeepsMethod(obj, o) ==
    CASE o.opt = "Retry"       -> [obj EXCEPT !.loop.Attempts = o.n, !.loop.Delay = o.d]
      [] o.opt = "WithRetry"   -> [obj EXCEPT !.loop = [Attempts |-> o.n, Delay |-> o.d,
                                                         Method |-> IF o.m = "nil" THEN @.Method ELSE o.m]]
      [] o.opt = "GracePeriod" -> [obj EXCEPT !.gracePeriod = o.d]

\* fn(obj) for one ConfigFunc.
ApplyConf(obj, o) ==
    CASE o.opt = "Retry"       -> [obj EXCEPT !.loop.Attempts = o.n, !.loop.Delay = o.d]
      [] o.opt = "WithRetry"   -> [obj EXCEPT !.loop = [Attempts |-> o.n, Delay |-> o.d, Method |-> o.m]]
      [] o.opt = "GracePeriod" -> [obj EXCEPT !.gracePeriod = o.d]

\* for _, fn := range conf { fn(obj) }
RECURSIVE ApplyAll(_, _)
ApplyAll(obj, cf) == IF cf = <<>> THEN obj ELSE ApplyAll(ApplyConf(obj, Head(cf)), Tail(cf))

\* Variant: a grace period that is not positive is replaced by the default.
NormaliseWithGrace(obj) ==
    LET o == IF obj.loop.Attempts < 1 THEN [obj EXCEPT !.loop.Attempts = 1] ELSE obj
    IN IF o.gracePeriod <= 0 THEN [o EXCEPT !.gracePeriod = DefaultGracePeriod] ELSE o

\* Variant: the attempt count is left as configured.
NormaliseNever(obj) == obj

\* if obj.loop.Attempts < 1 { obj.loop.Attempts = 1 }
Normalise(obj) == IF obj.loop.Attempts < 1 THEN [obj EXCEPT !.loop.Attempts = 1] ELSE obj

\* The object New starts from.
DefaultPGX(c) ==
    [pool |-> c, gracePeriod |-> DefaultGracePeriod,
     loop |-> [Attempts |-> 1, Delay |-> DefaultDelay, Method |-> "IncrementalDelay"]]

\* Variant: New does not test conn.
NewResultNoNilCheck(c, cf) == [obj |-> Normalise(ApplyAll(DefaultPGX(c), cf)), err |-> Nil]

\* New(conn, conf...): the pair (object, error) it returns.
NewResult(c, cf) ==
    IF c = "nil" THEN [obj |-> NoPGX, err |-> ErrEmptyDatabase]
    ELSE [obj |-> Normalise(ApplyAll(DefaultPGX(c), cf)), err |-> Nil]

\* ------------------------------------------------------------ inputs
\* Options a caller passes to New.
Options ==
    {Retry(n, 1) : n \in (-1)..MaxAttempts}
      \cup {WithRetry(0, 0, "nil"), WithRetry(MaxAttempts, 5, "StandardDelay")}
      \cup {GracePeriod(0), GracePeriod(5)}

\* Option lists of length at most MaxConf.
AllConfs == UNION {[1..n -> Options] : n \in 0..MaxConf}

\* Option lists of the common constructions: none, or one Retry / WithRetry.
BasicConfs == {<<>>} \cup {<<Retry(n, 1)>> : n \in 0..MaxAttempts} \cup {<<WithRetry(0, 0, "nil")>>}

\* What a step function can do when invoked.
AllKinds == {"nil", "E", "stop", "canceled", "panicStr", "panicE", "panicCanceled", "panicStop"}

\* ------------------------------------------------------------ step functions
\* The value a step function returns (panics excluded).
FnReturn(kind) ==
    CASE kind = "nil"      -> Nil
      [] kind = "E"        -> Leaf("E")
      [] kind = "stop"     -> StopError(Leaf("Cause"))
      [] kind = "canceled" -> Wrapf("query", Canceled)
      [] kind = "canceledBare" -> Canceled
      [] kind = "deadline" -> Leaf("context.DeadlineExceeded")

\* Does the step function panic.
FnPanics(kind) == kind \in {"panicStr", "panicE", "panicCanceled", "panicStop"}

\* Variant: every panic value is formatted into the message and not wrapped.
RecoverFormatsValue(kind) ==
    IF FnPanics(kind) THEN [k |-> "panic: value", of |-> <<errPanic>>]
    ELSE FnReturn(kind)

\* Variant: the value fn returned is assigned to a shadowed err and lost.
RecoverIgnoresReturn(kind) ==
    CASE kind = "panicStr"      -> [k |-> "panic: msg", of |-> <<errPanic>>]
      [] kind = "panicE"        -> [k |-> "panic", of |-> <<errPanic, Leaf("E")>>]
      [] kind = "panicCanceled" -> [k |-> "panic", of |-> <<errPanic, Canceled>>]
      [] kind = "panicStop"     -> [k |-> "panic", of |-> <<errPanic, StopError(Leaf("Cause"))>>]
      [] OTHER                  -> Nil

\* err after the recovering closure around fn(tx) has run:
\*   panic(error x)  -> fmt.Errorf("%w: %w\n%s", errPanic, x, debug.Stack())
\*   panic(other r)  -> fmt.Errorf("%w: %s\n%s", errPanic, r, debug.Stack())
\*   no panic        -> what fn returned
Recover(kind) ==
    CASE kind = "panicStr"      -> [k |-> "panic: msg", of |-> <<errPanic>>]
      [] kind = "panicE"        -> [k |-> "panic", of |-> <<errPanic, Leaf("E")>>]
      [] kind = "panicCanceled" -> [k |-> "panic", of |-> <<errPanic, Canceled>>]
      [] kind = "panicStop"     -> [k |-> "panic", of |-> <<errPanic, StopError(Leaf("Cause"))>>]
      [] OTHER                  -> FnReturn(kind)

\* Variant: only panics with an error value are recovered.
EscapesNonError(kind) == kind = "panicStr"

\* Does a panic of the step function leave the recovering closure: the
\* deferred recover() takes every panic value.
Escapes(kind) == FALSE

\* Variant: the deadline error of a context is terminal too.
ClassifyAnyContextError(e) ==
    IF Is(e, "context.Canceled") \/ Is(e, "context.DeadlineExceeded") THEN StopError(e) ELSE e

\* Variant: no step error is wrapped in a StopError.
ClassifyNever(e) == e

\* Variant: every step error is wrapped in a StopError.
ClassifyAlwaysStop(e) == StopError(e)

\* if errors.Is(err, context.Canceled) { err = &retry.StopError{Err: err} }
Classify(e) == IF Is(e, "context.Canceled") THEN StopError(e) ELSE e

\* Variant: a failed rollback halts retrying.
rollbackWithErrStopsOnFailure(rok, e) ==
    IF rok THEN Join(Nil, e)
    ELSE StopError(Join(Wrapf("rolling back transaction", Leaf("R")), e))

\* Variant: only the rollback's own error is returned.
rollbackWithErrOnlyRollback(rok, e) ==
    IF rok THEN Nil ELSE Wrapf("rolling back transaction", Leaf("R"))

\* Variant: a failed rollback replaces the error instead of joining it.
rollbackWithErrDropsCause(rok, e) ==
    IF rok THEN Join(Nil, e) ELSE Wrapf("rolling back transaction", Leaf("R"))

\* PGX.rollbackWithErr(tx, err), given whether tx.Rollback succeeded.
rollbackWithErr(rok, e) ==
    Join(IF rok THEN Nil ELSE Wrapf("rolling back transaction", Leaf("R")), e)

\* Variant: after a step error the rollback is issued on the caller's
\* context.
StepErrRollbackOnCaller == "caller"

\* The context handed to Rollback after a step error: the one
\* rollbackWithErr makes from the grace period.
StepErrRollbackOn == "grace"

\* Variant: the rollback is issued on the caller's context.
RollbackCtxCaller(p) == ctx

\* The context rollbackWithErr rolls back on:
\* context.WithTimeout(context.Background(), p.gracePeriod).
RollbackCtx(p) == IF p.gracePeriod > 0 THEN "live" ELSE "expired"

\* Variant: the result of Commit is wrapped without the nil test.
CommitResultAlwaysWraps(ok) == Wrapf("committing transaction", IF ok THEN Nil ELSE Leaf("Cm"))

\* Variant: the result of Commit is ignored.
CommitResultSwallows(ok) == Nil

\* err = tx.Commit(ctx); a failure is wrapped, success is nil.
CommitResult(ok) == IF ok THEN Nil ELSE Wrapf("committing transaction", Leaf("Cm"))

\* Variant: a failure of Begin is reported as a stop signal.
BeginErrorStops == StopError(Wrapf("starting transaction", Leaf("B")))

\* tx, err := p.pool.Begin(ctx); the error the closure returns on failure.
BeginError == Wrapf("starting transaction", Leaf("B"))

\* Variant: the loop over fns has no cancellation check.
CtxDoneNever(c) == FALSE

\* case <-ctx.Done(): taken when the caller's context is cancelled.
CtxDone(c) == c = "canceled"

\* Variant: Transaction does not test the pool.
PoolUnsetNever(p) == FALSE

\* if p.pool == nil
PoolUnset(p) == p.pool = "nil"

\* Variant: the context is checked once more before Commit.
CommitCtxDoneChecked(c) == c = "canceled"

\* What the code asks of the context between the loop over fns and
\* tx.Commit(ctx): nothing, the select stands only before each step.
CommitCtxDone(c) == FALSE

\* Variant: the loop runs without the caller's context (p.loop.Do).
LoopCtxBackground(c) == "live"

\* The context Transaction hands to the scheduler: p.loop.DoContext(ctx, ...).
LoopCtx(c) == c

\* Variant: a new attempt resumes at the step that failed.
FirstFnResumes == IF idx > 1 THEN idx ELSE 1

\* for _, fn := range fns: every attempt starts at the first function.
FirstFn == 1

\* ------------------------------------------------------------ history
\* One call recorded in the log: op is "Begin", "Step", "Commit" or
\* "Rollback", a the attempt, j the step index, r the outcome, on the context
\* passed ("caller" or "grace") and st its state, cx the state of the caller's
\* context when the call was made, why the reason of a rollback ("ctxdone" or
\* "steperr") or whether a step cancels the caller's context ("cancels").
Event(op, a, j, r, on, st, cx, why) ==
    [op |-> op, a |-> a, j |-> j, r |-> r, on |-> on, st |-> st, cx |-> cx, why |-> why]

\* ------------------------------------------------------------ scheduler
\* What retry.Retry.DoContext returns when it finds the context cancelled
\* before an attempt: the context's error, alone or with the last error.
CtxReturn(last) == {Canceled, Join(last, Canceled)}

\* retry.Retry.DoContext after the attempt closure returned e: nil ends the
\* loop with nil, a StopError found in e ends it with the Err it carries,
\* any other error is kept and the next attempt follows after the delay
\* unless the budget is used up.
Returned(e) ==
    /\ errs' = Append(errs, e)
    /\ err' = e
    /\ IF e = Nil THEN ret' = Nil /\ pc' = "done" /\ i' = i
       ELSE IF FindStop(e) # Nil THEN ret' = FindStop(e).of[1] /\ pc' = "done" /\ i' = i
       ELSE /\ i' = i + 1
            /\ IF i + 1 >= pgx.loop.Attempts
               THEN ret' = e /\ pc' = "done"
               ELSE ret' = ret /\ pc' = "loop"

\* ------------------------------------------------------------ actions
Init ==
    /\ conn \in {"pool", "nil"}
    /\ conf \in BasicConfs
    /\ kinds = AllKinds
    /\ pgx = NoPGX /\ newErr = Nil /\ pc = "start" /\ ctx = "live"
    /\ nfns = 0 /\ i = 0 /\ idx = 0 /\ tx = 0
    /\ err = Nil /\ ret = Nil /\ errs = <<>> /\ log = <<>>
    /\ calls = NoCalls /\ opened = 0 /\ uses = {}
    /\ vr = NoRecorder /\ rt = NoRetry /\ prev = <<>> /\ wt = NoWT

\* tr, err := dbtools.New(conn, conf...)
New ==
    /\ pc = "start"
    /\ pgx' = NewResult(conn, conf).obj
    /\ newErr' = NewResult(conn, conf).err
    /\ pc' = IF NewResult(conn, conf).err = Nil THEN "ready" ELSE "noexec"
    /\ UNCHANGED <<conn, conf, kinds, ctx, nfns, i, idx, tx, err, ret, errs, log>>
    /\ UNCHANGED concVars
    /\ UNCHANGED auxVars

\* tr := &dbtools.PGX{}
ZeroValue ==
    /\ pc = "start"
    /\ pgx' = ZeroPGX
    /\ pc' = "ready"
    /\ UNCHANGED <<conn, conf, kinds, newErr, ctx, nfns, i, idx, tx, err, ret, errs, log>>
    /\ UNCHANGED concVars
    /\ UNCHANGED auxVars

\* tr.Transaction(ctx, fns...) is called with n step functions.
Transaction ==
    /\ pc = "ready"
    /\ \E n \in 0..MaxFns : nfns' = n
    /\ IF PoolUnset(pgx)
       THEN ret' = ErrEmptyDatabase /\ pc' = "done"
       ELSE IF pgx.loop.Attempts < 1
       THEN ret' = Nil /\ pc' = "done"
       ELSE ret' = ret /\ pc' = "loop"
    /\ i' = 0
    /\ UNCHANGED <<conn, conf, kinds, pgx, newErr, ctx, idx, tx, err, errs, log>>
    /\ UNCHANGED concVars
    /\ UNCHANGED auxVars

\* One iteration of DoContext up to p.pool.Begin(ctx).
Attempt ==
    /\ pc = "loop"
    /\ i < pgx.loop.Attempts
    /\ IF LoopCtx(ctx) = "canceled"
       THEN /\ ret' \in CtxReturn(err)
            /\ pc' = "done"
            /\ UNCHANGED <<i, idx, tx, err, errs, log>>
       ELSE \E ok \in BOOLEAN :
            /\ log' = Append(log, Event("Begin", i + 1, 0, IF ok THEN "ok" ELSE "fail", "caller", ctx, ctx, "-"))
            /\ IF ok
               THEN /\ tx' = i + 1 /\ idx' = FirstFn /\ pc' = "steps"
                    /\ UNCHANGED <<i, err, ret, errs>>
               ELSE /\ Returned(BeginError)
                    /\ UNCHANGED <<idx, tx>>
    /\ UNCHANGED <<conn, conf, kinds, pgx, newErr, ctx, nfns>>
    /\ UNCHANGED concVars
    /\ UNCHANGED auxVars

\* One turn of the loop over fns: the cancellation check, fn(tx) under
\* recover, and the rollback when it failed.
Step ==
    /\ pc = "steps"
    /\ idx <= nfns
    /\ IF CtxDone(ctx)
       THEN \E rok \in BOOLEAN :
            /\ log' = Append(log, Event("Rollback", i + 1, idx, IF rok THEN "ok" ELSE "fail", "grace", RollbackCtx(pgx), ctx, "ctxdone"))
            /\ tx' = 0
            /\ Returned(StopError(rollbackWithErr(rok, Canceled)))
            /\ UNCHANGED <<ctx, idx>>
       ELSE \E kind \in kinds, cancels \in BOOLEAN :
            /\ ctx' = IF cancels THEN "canceled" ELSE ctx
            /\ IF FnPanics(kind) /\ Escapes(kind)
               THEN /\ log' = Append(log, Event("Step", i + 1, idx, kind, "-", "-", ctx, IF cancels THEN "cancels" ELSE "-"))
                    /\ pc' = "panicked"
                    /\ UNCHANGED <<i, idx, tx, err, ret, errs>>
               ELSE IF Recover(kind) = Nil
               THEN /\ log' = Append(log, Event("Step", i + 1, idx, kind, "-", "-", ctx, IF cancels THEN "cancels" ELSE "-"))
                    /\ idx' = idx + 1
                    /\ UNCHANGED <<pc, i, tx, err, ret, errs>>
               ELSE \E rok \in BOOLEAN :
                    /\ log' = log \o << Event("Step", i + 1, idx, kind, "-", "-", ctx, IF cancels THEN "cancels" ELSE "-"),
                                        Event("Rollback", i + 1, idx, IF rok THEN "ok" ELSE "fail", StepErrRollbackOn,
                                              IF StepErrRollbackOn = "grace" THEN RollbackCtx(pgx) ELSE ctx', ctx', "steperr") >>
                    /\ tx' = 0
                    /\ Returned(rollbackWithErr(rok, Classify(Recover(kind))))
                    /\ UNCHANGED idx
    /\ UNCHANGED <<conn, conf, kinds, pgx, newErr, nfns>>
    /\ UNCHANGED concVars
    /\ UNCHANGED auxVars

\* err = tx.Commit(ctx) after the last step.
Commit ==
    /\ pc = "steps"
    /\ idx > nfns
    /\ IF CommitCtxDone(ctx)
       THEN \E rok \in BOOLEAN :
            /\ log' = Append(log, Event("Rollback", i + 1, idx, IF rok THEN "ok" ELSE "fail", "grace", RollbackCtx(pgx), ctx, "ctxdone"))
            /\ Returned(StopError(rollbackWithErr(rok, Canceled)))
       ELSE \E ok \in BOOLEAN :
            /\ log' = Append(log, Event("Commit", i + 1, 0, IF ok THEN "ok" ELSE "fail", "caller", ctx, ctx, "-"))
            /\ Returned(CommitResult(ok))
    /\ tx' = 0
    /\ UNCHANGED <<conn, conf, kinds, pgx, newErr, ctx, nfns, idx>>
    /\ UNCHANGED concVars
    /\ UNCHANGED auxVars

\* The caller's context is cancelled by its owner while the call runs or
\* before it starts.
Cancel ==
    /\ pc \in {"ready", "loop", "steps"}
    /\ ctx = "live"
    /\ ctx' = "canceled"
    /\ UNCHANGED <<conn, conf, kinds, pgx, newErr, pc, nfns, i, idx, tx, err, ret, errs, log>>
    /\ UNCHANGED concVars
    /\ UNCHANGED auxVars

Next == New \/ ZeroValue \/ Transaction \/ Attempt \/ Step \/ Commit \/ Cancel

Spec == Init /\ [][Next]_vars

\* Construction with every option list up to MaxConf, the step functions
\* returning nil or a plain error.
InitConf ==
    /\ conn \in {"pool", "nil"}
    /\ conf \in AllConfs
    /\ kinds = {"nil", "E"}
    /\ pgx = NoPGX /\ newErr = Nil /\ pc = "start" /\ ctx = "live"
    /\ nfns = 0 /\ i = 0 /\ idx = 0 /\ tx = 0
    /\ err = Nil /\ ret = Nil /\ errs = <<>> /\ log = <<>>
    /\ calls = NoCalls /\ opened = 0 /\ uses = {}
    /\ vr = NoRecorder /\ rt = NoRetry /\ prev = <<>> /\ wt = NoWT

SpecConf == InitConf /\ [][Next]_vars

\* ------------------------------------------------------------ queries on the history
\* Positions of the log holding a call of kind op.
Calls(op) == {n \in DOMAIN log : log[n].op = op}
\* Number of calls of kind op, in total and within attempt a.
Count(op) == Cardinality(Calls(op))
CountIn(op, a) == Cardinality({n \in Calls(op) : log[n].a = a})
\* The call ran through the scheduler and has returned.
Returns == pc = "done" /\ pgx.pool = "pool"
\* The attempt budget of the executor.
Budget == pgx.loop.Attempts
\* Every Begin succeeded.
BeginsOk == \A n \in Calls("Begin") : log[n].r = "ok"
\* Every step invocation returned nil or the plain error E.
StepsPlain == \A n \in Calls("Step") : log[n].r \in {"nil", "E"}
\* Attempt a ended because a step returned an outcome in ks.
FailedWith(a, ks) == \E n \in Calls("Step") : log[n].a = a /\ log[n].r \in ks
\* The step panics.
PanicKinds == {"panicStr", "panicE", "panicCanceled", "panicStop"}
\* Panic values that are neither a stop nor a cancellation error.
PlainPanics == {"panicStr", "panicE"}

\* ------------------------------------------------------------ claims

\* C1: with the caller's context live throughout, Begin always succeeding and
\* a step returning the plain error E in every attempt, a call with budget N
\* makes exactly N attempts, each with one Begin, one Rollback and no Commit,
\* and returns the error of the N-th attempt.
C1_Exhaustion ==
    (Returns /\ ctx = "live" /\ BeginsOk /\ StepsPlain
        /\ \A a \in 1..Len(errs) : FailedWith(a, {"E"}))
    => /\ Len(errs) = Budget
       /\ Count("Begin") = Budget /\ Count("Rollback") = Budget /\ Count("Commit") = 0
       /\ \A a \in 1..Budget : CountIn("Begin", a) = 1 /\ CountIn("Rollback", a) = 1
       /\ ret = errs[Budget] /\ ret # Nil /\ Is(ret, "E")

C1_Witness ==
    /\ Returns /\ ctx = "live" /\ BeginsOk /\ StepsPlain
    /\ Budget = MaxAttempts /\ Len(errs) = MaxAttempts
    /\ \A a \in 1..Len(errs) : FailedWith(a, {"E"})

\* C2: a successful Commit is the last call of the invocation and makes it
\* return nil; when the attempts before it failed with the plain error E
\* (k of them, Begin always succeeding), there were exactly k+1 Begin calls,
\* k Rollback calls and one Commit call, and k+1 is within the budget.
C2_RetryUntilSuccess ==
    /\ \A n \in Calls("Commit") : log[n].r = "ok" => n = Len(log) /\ pc = "done" /\ ret = Nil
    /\ (Returns /\ log # <<>> /\ BeginsOk /\ StepsPlain
          /\ log[Len(log)].op = "Commit" /\ log[Len(log)].r = "ok"
          /\ \A a \in 1..(Len(errs) - 1) : FailedWith(a, {"E"}))
       => /\ Len(errs) <= Budget
          /\ Count("Begin") = Len(errs)
          /\ Count("Rollback") = Len(errs) - 1
          /\ Count("Commit") = 1
          /\ ret = Nil

C2_Witness ==
    /\ Returns /\ BeginsOk /\ StepsPlain /\ Budget = MaxAttempts
    /\ Len(errs) = MaxAttempts /\ MaxAttempts >= 2
    /\ log[Len(log)].op = "Commit" /\ log[Len(log)].r = "ok"
    /\ \A a \in 1..(Len(errs) - 1) : FailedWith(a, {"E"})

\* C3: when a step returns a *retry.StopError in attempt k, the transaction
\* of attempt k is rolled back right away, nothing is called afterwards (so
\* Begin was called exactly k times), the call has returned, and the
\* returned error is traceable to the cause inside the StopError.
C3_StopSignal ==
    \A n \in Calls("Step") : log[n].r = "stop" =>
        /\ Len(log) = n + 1
        /\ log[n + 1].op = "Rollback" /\ log[n + 1].a = log[n].a
        /\ tx = 0
        /\ pc = "done"
        /\ Count("Begin") = log[n].a
        /\ Is(ret, "Cause")

C3_Witness ==
    /\ Returns /\ Budget = MaxAttempts /\ Len(errs) < Budget /\ Len(errs) >= 2
    /\ \E n \in Calls("Step") : log[n].r = "stop" /\ log[n + 1].r = "fail"

CauseOf(kind) ==
    CASE kind = "E"        -> "E"
      [] kind = "stop"     -> "Cause"
      [] kind = "canceled" -> "context.Canceled"
      [] OTHER             -> "errPanic"

\* C5: whenever a step fails and the Rollback of that attempt fails too, the
\* error of that attempt is traceable to the step's error and to the
\* rollback error R, and so is the error Transaction returns when that
\* attempt was the last one.
C5_RollbackFailureKept ==
    \A n \in Calls("Rollback") : (log[n].why = "steperr" /\ log[n].r = "fail") =>
        LET a == log[n].a
            c == CauseOf(log[n - 1].r)
        IN /\ Len(errs) >= a
           /\ Is(errs[a], "R") /\ Is(errs[a], c)
           /\ (pc = "done" /\ a = Len(errs)) => (Is(ret, "R") /\ Is(ret, c))

\* The caller's context is found cancelled when a step is about to run.
CancelledBeforeStep == pc = "steps" /\ idx <= nfns /\ ctx = "canceled"

\* C6: no step is invoked with the caller's context already cancelled; from a
\* state where a step is about to run and the context is cancelled, the only
\* thing that happens is the rollback of the open transaction, after which
\* the call has returned an error traceable to context.Canceled - whatever
\* budget remains; and such a rollback is the last call of the invocation.
C6_CancelBeforeStep ==
    /\ [](\A n \in Calls("Step") : log[n].cx = "live")
    /\ [](\A n \in Calls("Rollback") : log[n].why = "ctxdone" =>
            /\ n = Len(log) /\ pc = "done" /\ tx = 0
            /\ Count("Begin") = log[n].a
            /\ Is(ret, "context.Canceled"))
    /\ [][CancelledBeforeStep =>
            /\ Len(log') = Len(log) + 1
            /\ log'[Len(log')].op = "Rollback" /\ log'[Len(log')].a = i + 1
            /\ tx' = 0 /\ pc' = "done"
            /\ Is(ret', "context.Canceled")]_vars

C6_Witness ==
    /\ Returns /\ Len(errs) < Budget /\ Len(errs) >= 2 /\ nfns = 2
    /\ log[Len(log)].op = "Rollback" /\ log[Len(log)].why = "ctxdone"
    /\ log[Len(log)].j = 2
    /\ Is(ret, "context.Canceled")

\* C7: Begin is never called with the caller's context cancelled; and once a
\* step has cancelled the context in attempt k and returned the plain error
\* E, only the rollback of attempt k follows: Begin has been called k times
\* in total, and with one step function (Begin always succeeding) the
\* function has been invoked k times in total.
C7_NoAttemptAfterCancel ==
    /\ \A n \in Calls("Begin") : log[n].cx = "live"
    /\ \A n \in Calls("Step") : (log[n].why = "cancels" /\ log[n].r = "E") =>
          /\ Len(log) = n + 1
          /\ Count("Begin") = log[n].a
          /\ (nfns = 1 /\ BeginsOk) => Count("Step") = log[n].a

C7_Witness ==
    /\ Returns /\ nfns = 1 /\ BeginsOk /\ Budget = MaxAttempts
    /\ Len(errs) = 2 /\ Len(errs) < Budget
    /\ \E n \in Calls("Step") : log[n].why = "cancels" /\ log[n].r = "E" /\ log[n].a = 2
    /\ Is(ret, "context.Canceled")

\* C8: New with a nil connection provider returns ErrEmptyDatabase and no
\* executor, and no Begin is ever called.
C8_NewNilConn ==
    conn = "nil" =>
        /\ Count("Begin") = 0
        /\ (pc # "start" /\ pgx # ZeroPGX) =>
              (pc = "noexec" /\ newErr = ErrEmptyDatabase /\ pgx = NoPGX)

C8_Witness == conn = "nil" /\ pc = "noexec" /\ newErr = ErrEmptyDatabase

\* The attempt count the options leave before New normalises it.
Configured == ApplyAll(DefaultPGX(conn), conf).loop.Attempts

\* C9: for every list of options the constructed executor has an attempt
\* count of at least 1; with no option, or with a configured count below 1,
\* the count is 1 and Transaction makes exactly one attempt (none when the
\* context is cancelled before it starts) and returns after it whether it
\* failed or not.
C9_AttemptNormalisation ==
    (pc \notin {"start", "noexec"} /\ pgx.pool = "pool") =>
        /\ Budget >= 1
        /\ (conf = <<>> \/ Configured < 1) =>
              /\ Budget = 1
              /\ Len(errs) <= 1 /\ Count("Begin") <= 1
              /\ Len(errs) = 1 => pc = "done"
              /\ pc = "done" => \/ (Len(errs) = 1 /\ Count("Begin") = 1)
                                \/ (ctx = "canceled" /\ log = <<>>)

C9_Witness ==
    /\ Returns /\ Len(conf) = MaxConf /\ Configured < 1
    /\ conf[MaxConf].opt = "GracePeriod"
    /\ Len(errs) = 1 /\ errs[1] # Nil /\ Count("Rollback") = 1

\* C10: on the zero-value executor Transaction returns ErrEmptyDatabase at
\* once: no attempt, no Begin, no step.
C10_ZeroValue ==
    pgx = ZeroPGX =>
        /\ pc \in {"ready", "done"}
        /\ log = <<>> /\ errs = <<>> /\ tx = 0
        /\ pc = "done" => ret = ErrEmptyDatabase

C10_Witness == pgx = ZeroPGX /\ pc = "done" /\ nfns = MaxFns /\ ret = ErrEmptyDatabase

\* Every Begin failed.
BeginsFail == \A n \in Calls("Begin") : log[n].r = "fail"

\* C11: in an attempt whose Begin fails nothing else is called - no step, no
\* Commit, no Rollback; its error is traceable to the Begin error and is not
\* a stop signal; and when, with the context live, Begin fails in every
\* attempt, Begin is called exactly N times, nothing else is called and the
\* returned error is traceable to the Begin error.
C11_BeginFailure ==
    /\ \A n \in Calls("Begin") : log[n].r = "fail" =>
          /\ \A m \in DOMAIN log : log[m].a = log[n].a => m = n
          /\ (n = Len(log)) => tx = 0
          /\ Len(errs) >= log[n].a
          /\ Is(errs[log[n].a], "B") /\ FindStop(errs[log[n].a]) = Nil
          /\ (log[n].a < Budget) => (pc = "loop" \/ n < Len(log) \/ ctx = "canceled")
    /\ (Returns /\ ctx = "live" /\ BeginsFail)
       => /\ Count("Begin") = Budget /\ Len(log) = Budget /\ Len(errs) = Budget
          /\ ret = errs[Budget] /\ Is(ret, "B")

C11_Witness ==
    /\ Returns /\ ctx = "live" /\ BeginsFail /\ nfns = MaxFns
    /\ Budget = MaxAttempts /\ Count("Begin") = MaxAttempts /\ Is(ret, "B")

\* Attempt a ended with a failed Commit.
CommitFailed(a) == \E n \in Calls("Commit") : log[n].a = a /\ log[n].r = "fail"

\* C12: after a failed Commit no Rollback is called in that attempt; the
\* attempt's error is traceable to the Commit error and is not a stop signal,
\* so the next attempt (if any) begins a new transaction and runs the steps
\* from the first again; and when, with the context live and Begin
\* succeeding, Commit fails in every attempt, there are N attempts, every
\* step function runs exactly N times, no Rollback happens and the returned
\* error is traceable to the Commit error.
C12_CommitFailure ==
    /\ \A n \in Calls("Commit") : log[n].r = "fail" =>
          /\ CountIn("Rollback", log[n].a) = 0
          /\ Len(errs) >= log[n].a
          /\ Is(errs[log[n].a], "Cm") /\ FindStop(errs[log[n].a]) = Nil
          /\ (n < Len(log)) =>
                /\ log[n + 1].op = "Begin" /\ log[n + 1].a = log[n].a + 1
                /\ (n + 1 < Len(log) /\ log[n + 1].r = "ok" /\ nfns > 0) =>
                      (log[n + 2].j = 1 /\ log[n + 2].a = log[n].a + 1)
    /\ (Returns /\ ctx = "live" /\ BeginsOk /\ \A a \in 1..Len(errs) : CommitFailed(a))
       => /\ Len(errs) = Budget /\ Count("Commit") = Budget /\ Count("Begin") = Budget
          /\ \A j \in 1..nfns : Cardinality({m \in Calls("Step") : log[m].j = j}) = Budget
          /\ Count("Rollback") = 0
          /\ ret = errs[Budget] /\ Is(ret, "Cm")

C12_Witness ==
    /\ Returns /\ ctx = "live" /\ BeginsOk /\ nfns = MaxFns
    /\ Budget = MaxAttempts /\ Len(errs) = MaxAttempts
    /\ \A a \in 1..Len(errs) : CommitFailed(a)
    /\ Count("Step") = MaxAttempts * MaxFns

\* Attempts that appear in the log.
Attempts == {log[n].a : n \in DOMAIN log}
\* Begin succeeded in attempt a.
Opened(a) == \E n \in Calls("Begin") : log[n].a = a /\ log[n].r = "ok"
\* Number of Commit and Rollback calls of attempt a.
Terminals(a) == CountIn("Commit", a) + CountIn("Rollback", a)
\* Invocations of step function j in attempt a.
StepAt(a, j) == {n \in Calls("Step") : log[n].a = a /\ log[n].j = j}

\* C13: at most one transaction is open at any time; an attempt whose Begin
\* succeeded has at most one Commit-or-Rollback call, placed after its Begin
\* and last in the attempt; while it has none it is the running attempt and
\* nothing of a later attempt has happened; an attempt whose Begin failed has
\* none; and when Transaction has returned no transaction is open.
C13_Lifecycle ==
    /\ Cardinality({a \in Attempts : Opened(a) /\ Terminals(a) = 0}) <= 1
    /\ \A a \in Attempts :
          /\ ~Opened(a) => Terminals(a) = 0
          /\ Opened(a) =>
                /\ Terminals(a) <= 1
                /\ Terminals(a) = 0 =>
                      /\ pc = "steps" /\ tx = a /\ a = i + 1
                      /\ \A n \in DOMAIN log : log[n].a <= a
                /\ Terminals(a) = 1 =>
                      \E n \in Calls("Commit") \cup Calls("Rollback") :
                          /\ log[n].a = a
                          /\ \A m \in DOMAIN log : log[m].a = a => m <= n
                          /\ \A m \in DOMAIN log : m > n => log[m].a > a
    /\ (tx # 0) <=> (\E a \in Attempts : Opened(a) /\ Terminals(a) = 0)
    /\ pc = "done" => (tx = 0 /\ \A a \in Attempts : Opened(a) => Terminals(a) = 1)

C13_Witness ==
    /\ Returns /\ Len(errs) = 3
    /\ CommitFailed(1)
    /\ \E n \in Calls("Step") : log[n].a = 2 /\ log[n].r = "panicStr"
    /\ log[Len(log)].op = "Rollback" /\ log[Len(log)].why = "ctxdone" /\ log[Len(log)].a = 3

\* C14: within an attempt the step functions are invoked in the order given,
\* each at most once, step j only after steps 1..j-1 returned nil in that
\* attempt; after a step that failed or panicked only the rollback follows in
\* that attempt; Commit is called only after every step function returned
\* nil in that attempt; and the calls of one attempt all precede the calls of
\* the next.
C14_StepOrder ==
    /\ \A n \in Calls("Step") :
          /\ log[n].j \in 1..nfns
          /\ Cardinality(StepAt(log[n].a, log[n].j)) = 1
          /\ \A j \in 1..(log[n].j - 1) :
                \E m \in StepAt(log[n].a, j) : m < n /\ log[m].r = "nil"
          /\ log[n].r # "nil" =>
                \A m \in DOMAIN log : (m > n /\ log[m].a = log[n].a) => log[m].op = "Rollback"
    /\ \A n \in Calls("Commit") :
          \A j \in 1..nfns : \E m \in StepAt(log[n].a, j) : m < n /\ log[m].r = "nil"
    /\ \A m, n \in DOMAIN log : m < n => log[m].a <= log[n].a

C14_Witness ==
    /\ Returns /\ nfns = 2 /\ Len(errs) = 2
    /\ \E n \in StepAt(1, 2) : log[n].r = "E"
    /\ \E n \in StepAt(2, 2) : log[n].r = "nil"
    /\ log[Len(log)].op = "Commit"

\* Attempts in which Begin succeeded and the step functions before j all
\* returned nil.
Reaching(j) ==
    {a \in Attempts : Opened(a) /\ \A k \in 1..(j - 1) : \E m \in StepAt(a, k) : log[m].r = "nil"}

\* The cancellation check stopped attempt a before step function j.
CutBefore(a, j) ==
    \E n \in Calls("Rollback") : log[n].a = a /\ log[n].j = j /\ log[n].why = "ctxdone"

\* C15 as stated: over a whole invocation step function 1 is called once per
\* attempt whose Begin succeeded and step function j once per attempt in
\* which the functions before it all returned nil.
C15_Original ==
    Returns =>
        \A j \in 1..nfns :
            Cardinality({n \in Calls("Step") : log[n].j = j}) = Cardinality(Reaching(j))

\* C15, amended: over a whole invocation step function j is called once per
\* attempt in which Begin succeeded, the functions before j all returned nil
\* and the context was not found cancelled before j.
C15_StepsRerun ==
    Returns =>
        \A j \in 1..nfns :
            Cardinality({n \in Calls("Step") : log[n].j = j})
                = Cardinality({a \in Reaching(j) : ~CutBefore(a, j)})

C15_Witness ==
    /\ Returns /\ nfns = 2 /\ Len(errs) = 2 /\ BeginsOk
    /\ \E n \in StepAt(1, 1) : log[n].r = "E"
    /\ \E n \in StepAt(2, 1) : log[n].r = "nil"
    /\ CutBefore(2, 2)
    /\ Cardinality({n \in Calls("Step") : log[n].j = 1}) = 2
    /\ Cardinality({n \in Calls("Step") : log[n].j = 2}) = 0

\* The last call of the invocation is a successful Commit.
Succeeded == log # <<>> /\ log[Len(log)].op = "Commit" /\ log[Len(log)].r = "ok"
\* The error of the most recent attempt.
LastErr == errs[Len(errs)]

\* C16 as stated: Transaction returns nil exactly when its last call is a
\* successful Commit, and otherwise a non-nil error that is the most recent
\* attempt's error (or the Err of the stop signal that error carries).
C16_Original ==
    Returns =>
        /\ (ret = Nil) <=> Succeeded
        /\ ret # Nil =>
              /\ Len(errs) >= 1
              /\ \/ ret = LastErr
                 \/ (FindStop(LastErr) # Nil /\ ret = FindStop(LastErr).of[1])

\* C16, amended: Transaction returns nil exactly when its last call is a
\* successful Commit (of the last attempt); otherwise it returns a non-nil
\* error, which is the most recent attempt's error when the budget is used
\* up, the Err of the stop signal when the most recent attempt signalled
\* stop, and an error traceable to the context's cancellation when the
\* context was found cancelled before an attempt could start.
C16_ReturnValue ==
    Returns =>
        /\ (ret = Nil) <=> Succeeded
        /\ Succeeded => (log[Len(log)].a = Len(errs) /\ LastErr = Nil)
        /\ ~Succeeded =>
              /\ ret # Nil
              /\ \/ /\ Len(errs) = Budget /\ FindStop(LastErr) = Nil /\ ret = LastErr
                 \/ /\ Len(errs) >= 1 /\ FindStop(LastErr) # Nil
                    /\ ret = FindStop(LastErr).of[1]
                 \/ /\ Len(errs) < Budget /\ ctx = "canceled"
                    /\ Len(errs) >= 1 => (LastErr # Nil /\ FindStop(LastErr) = Nil)
                    /\ Is(ret, "context.Canceled")

C16_Witness ==
    /\ Returns /\ Len(errs) = 2 /\ Len(errs) < Budget /\ ctx = "canceled"
    /\ log[Len(log)].op = "Rollback" /\ log[Len(log)].why = "steperr"
    /\ ~Is(LastErr, "context.Canceled")
    /\ Is(ret, "context.Canceled")

\* The grace period the options ask for, in milliseconds: that of the last
\* GracePeriod option, 30s when there is none.
ConfiguredGrace ==
    LET gs == {k \in DOMAIN conf : conf[k].opt = "GracePeriod"}
    IN  IF gs = {} THEN 30000
        ELSE conf[CHOOSE k \in gs : \A l \in gs : l <= k].d

\* C17: a Rollback made because the caller's context was found cancelled is
\* issued on a fresh context bounded by the configured grace period (30s by
\* default), never on the caller's context, so its context is not cancelled:
\* it is live for a positive grace period.
C17_CancelRollbackContext ==
    /\ DefaultGracePeriod = 30000
    /\ pgx \notin {NoPGX, ZeroPGX} => pgx.gracePeriod = ConfiguredGrace
    /\ \A n \in Calls("Rollback") :
          log[n].why = "ctxdone" =>
              /\ log[n].cx = "canceled"
              /\ log[n].on = "grace"
              /\ log[n].st # "canceled"
              /\ log[n].st = IF ConfiguredGrace > 0 THEN "live" ELSE "expired"

C17_Witness ==
    /\ \E k \in DOMAIN conf : conf[k] = GracePeriod(5)
    /\ ConfiguredGrace = 5
    /\ \E n \in Calls("Rollback") :
          log[n].why = "ctxdone" /\ log[n].cx = "canceled" /\ log[n].st = "live"

\* Rollbacks of attempts that halted retrying with a stop signal: the step
\* returned a *retry.StopError, or the context was found cancelled before a
\* step.
StopRollbacks ==
    {n \in Calls("Rollback") :
        \/ log[n].why = "ctxdone"
        \/ (log[n].why = "steperr" /\ log[n - 1].r = "stop")}

\* The sentinel behind the stop signal of the rollback at position n.
StopCause(n) == IF log[n].why = "ctxdone" THEN "context.Canceled" ELSE "Cause"

\* C19: when retrying is halted by a stop signal and the Rollback of that
\* attempt fails, the error Transaction returns is traceable both to the
\* underlying cause and to the rollback failure R.
C19_TerminalKeepsBoth ==
    Returns =>
        \A n \in StopRollbacks : log[n].r = "fail" =>
            (Is(ret, StopCause(n)) /\ Is(ret, "R"))

\* The part of C19 that the code does meet: cancellation found before a step.
C19_CancellationHalf ==
    Returns =>
        \A n \in StopRollbacks : (log[n].r = "fail" /\ log[n].why = "ctxdone") =>
            (Is(ret, StopCause(n)) /\ Is(ret, "R"))

\* ------------------------------------------------------------ legacy executor
\* The Transaction type of src/db.go: NewTransaction, Transaction.PGX and
\* Transaction.DB.  It runs the loop with retry.Retry.Do, which is not given
\* the context, and rolls back on the caller's context (PGX) or without one
\* (DB).

\* retry.StopError{Err: e}, the value form.
StopValue(e) == [k |-> "StopErrorValue", of |-> <<e>>]

\* errors.Wrap(e, msg): nil when e is nil.
Wrap(e, msg) == IF e = Nil THEN Nil ELSE [k |-> msg, of |-> <<e>>]

\* multierror.Append(a, b).ErrorOrNil(): nil members are dropped.
multierrorAppend(a, b) ==
    IF a = Nil /\ b = Nil THEN Nil
    ELSE [k |-> "multierror", of |-> (IF a = Nil THEN <<>> ELSE <<a>>) \o (IF b = Nil THEN <<>> ELSE <<b>>)]

\* errors.As(e, &v1) with v1 a retry.StopError value.
AsStopValue(e) == Is(e, "StopErrorValue")
\* errors.As(e, &v2) with v2 a *retry.StopError.
AsStopPointer(e) == Is(e, "StopError")

\* The first StopError of either form in the depth-first walk of the tree.
RECURSIVE FindAnyStop(_)
FindAnyStop(e) ==
    IF e.k \in {"StopError", "StopErrorValue"} THEN e
    ELSE FirstStop([n \in 1..Len(e.of) |-> FindAnyStop(e.of[n])])

\* RetryCount(n), RetryDelay(d), DelayMethod(m)
RetryCount(n) == [opt |-> "RetryCount", n |-> n, d |-> 0, m |-> "-"]
RetryDelay(d) == [opt |-> "RetryDelay", n |-> 0, d |-> d, m |-> "-"]
DelayMethod(m) == [opt |-> "DelayMethod", n |-> 0, d |-> 0, m |-> m]

\* fn(t) for one legacy ConfigFunc.
ApplyLegacy(t, o) ==
    CASE o.opt = "RetryCount"  -> [t EXCEPT !.retries = o.n]
      [] o.opt = "RetryDelay"  -> [t EXCEPT !.delay = o.d]
      [] o.opt = "DelayMethod" -> [t EXCEPT !.method = o.m]
      [] OTHER                 -> t

RECURSIVE ApplyAllLegacy(_, _)
ApplyAllLegacy(t, os) ==
    IF os = <<>> THEN t ELSE ApplyAllLegacy(ApplyLegacy(t, Head(os)), Tail(os))

\* &Transaction{} with the connection stored by its type.
ZeroTransaction(c) ==
    [pool |-> IF c = "pool" THEN "pool" ELSE "nil",
     db |-> IF c = "db" THEN "db" ELSE IF c = "sqldb" THEN "dbWrapper" ELSE "nil",
     retries |-> 0, delay |-> 0, method |-> "nil",
     loop |-> [Attempts |-> 0, Delay |-> 0, Method |-> "nil"]]

\* NewTransaction(conn, conf...)
NewTransactionResult(c, os) ==
    IF c \notin {"pool", "db", "sqldb"}
    THEN [obj |-> NoPGX, err |-> ErrEmptyDatabase]
    ELSE LET t == ApplyAllLegacy(ZeroTransaction(c), os)
             r == IF t.retries < 1 THEN 1 ELSE t.retries
         IN [obj |-> [t EXCEPT !.retries = r,
                               !.loop = [Attempts |-> r, Delay |-> t.delay, Method |-> t.method]],
             err |-> Nil]

\* Connections and option lists handed to NewTransaction.
LegacyConns == {"pool", "db", "sqldb", "nil", "other"}
LegacyConfs ==
    {<<>>} \cup {<<RetryCount(n)>> : n \in (-1)..MaxAttempts}
           \cup {<<RetryCount(MaxAttempts), RetryDelay(5)>>, <<DelayMethod("IncrementalDelay")>>}
\* What a legacy step function can do when invoked.
LegacyKinds == {"nil", "E", "stop", "stopValue", "panicStr", "panicStop"}

\* The value a legacy step function returns (panics excluded).
LegacyFnReturn(kind) ==
    CASE kind = "stopValue" -> StopValue(Leaf("Cause"))
      [] OTHER              -> FnReturn(kind)

\* err after the recovering closure: errors.Wrapf(errPanic, "%v", r) formats
\* the panic value into the message and wraps errPanic alone.
LegacyRecover(kind) ==
    IF FnPanics(kind) THEN [k |-> "panic value", of |-> <<errPanic>>]
    ELSE LegacyFnReturn(kind)

\* Variant: only the value form is recognised (before v0.5.0).
LegacyClassifyValueOnly(er, e) ==
    IF AsStopValue(er) THEN StopError(e) ELSE e

\* if errors.As(err, &v1) || errors.As(err, &v2) { e = &retry.StopError{Err: e} }
LegacyClassify(er, e) ==
    IF AsStopValue(er) \/ AsStopPointer(er) THEN StopError(e) ELSE e

\* Variant: the loop is handed the caller's context, as DoContext is.
LegacyLoopCtxCaller(c) == c

\* What the scheduler sees of the caller's context: t.loop.Do(func() error
\* {...}) is not given the context, so to the loop it is never cancelled.
LegacyLoopCtx(c) == "live"

\* The method that is running: PGX needs the pool, DB the db, and
\* NewTransaction sets exactly one of them.
Method == IF pgx.pool # "nil" THEN "PGX" ELSE "DB"
\* The context argument of Rollback and Commit: tx.Rollback(ctx) in PGX,
\* tx.Rollback() in DB.
TxCtx == IF Method = "PGX" THEN "caller" ELSE "none"

\* retry.Retry.Do after the attempt closure returned e: nil ends the loop
\* with nil, a StopError found in e ends it with the Err it carries, any
\* other error is kept and the next attempt follows unless the budget is
\* used up.
LegacyReturned(e) ==
    /\ errs' = Append(errs, e)
    /\ err' = e
    /\ IF e = Nil THEN ret' = Nil /\ pc' = "done" /\ i' = i
       ELSE IF FindAnyStop(e) # Nil THEN ret' = FindAnyStop(e).of[1] /\ pc' = "done" /\ i' = i
       ELSE /\ i' = i + 1
            /\ IF i + 1 >= pgx.loop.Attempts
               THEN ret' = e /\ pc' = "done"
               ELSE ret' = ret /\ pc' = "loop"

InitLegacy ==
    /\ conn \in LegacyConns
    /\ conf \in LegacyConfs
    /\ kinds = LegacyKinds
    /\ pgx = NoPGX /\ newErr = Nil /\ pc = "start" /\ ctx = "live"
    /\ nfns = 0 /\ i = 0 /\ idx = 0 /\ tx = 0
    /\ err = Nil /\ ret = Nil /\ errs = <<>> /\ log = <<>>
    /\ calls = NoCalls /\ opened = 0 /\ uses = {}
    /\ vr = NoRecorder /\ rt = NoRetry /\ prev = <<>> /\ wt = NoWT

\* tr, err := dbtools.NewTransaction(conn, conf...)
NewTransaction ==
    /\ pc = "start"
    /\ pgx' = NewTransactionResult(conn, conf).obj
    /\ newErr' = NewTransactionResult(conn, conf).err
    /\ pc' = IF NewTransactionResult(conn, conf).err = Nil THEN "ready" ELSE "noexec"
    /\ UNCHANGED <<conn, conf, kinds, ctx, nfns, i, idx, tx, err, ret, errs, log>>
    /\ UNCHANGED concVars
    /\ UNCHANGED auxVars

\* tr.PGX(ctx, transactions...) is called with n step functions.
TransactionPGX ==
    /\ pc = "ready"
    /\ \E n \in 0..MaxFns : nfns' = n
    /\ IF pgx.pool = "nil"
       THEN ret' = ErrEmptyDatabase /\ pc' = "done"
       ELSE ret' = ret /\ pc' = "loop"
    /\ i' = 0
    /\ UNCHANGED <<conn, conf, kinds, pgx, newErr, ctx, idx, tx, err, errs, log>>
    /\ UNCHANGED concVars
    /\ UNCHANGED auxVars

\* tr.DB(ctx, transactions...) is called with n step functions.
TransactionDB ==
    /\ pc = "ready"
    /\ \E n \in 0..MaxFns : nfns' = n
    /\ IF pgx.db = "nil"
       THEN ret' = ErrEmptyDatabase /\ pc' = "done"
       ELSE ret' = ret /\ pc' = "loop"
    /\ i' = 0
    /\ UNCHANGED <<conn, conf, kinds, pgx, newErr, ctx, idx, tx, err, errs, log>>
    /\ UNCHANGED concVars
    /\ UNCHANGED auxVars

\* One iteration of Do up to t.pool.Begin(ctx) / t.db.BeginTx(ctx, nil).
LegacyAttempt ==
    /\ pc = "loop"
    /\ i < pgx.loop.Attempts
    /\ IF LegacyLoopCtx(ctx) = "canceled"
       THEN /\ ret' \in CtxReturn(err)
            /\ pc' = "done"
            /\ UNCHANGED <<i, idx, tx, err, errs, log>>
       ELSE \E ok \in BOOLEAN :
            /\ log' = Append(log, Event("Begin", i + 1, 0, IF ok THEN "ok" ELSE "fail", "caller", ctx, ctx, "-"))
            /\ IF ok
               THEN /\ tx' = i + 1 /\ idx' = 1 /\ pc' = "steps"
                    /\ UNCHANGED <<i, err, ret, errs>>
               ELSE /\ LegacyReturned(Wrap(Leaf("B"), "starting transaction"))
                    /\ UNCHANGED <<idx, tx>>
    /\ UNCHANGED <<conn, conf, kinds, pgx, newErr, ctx, nfns>>
    /\ UNCHANGED concVars
    /\ UNCHANGED auxVars

\* One turn of the loop over transactions: the cancellation check, fn(tx)
\* under recover, and the rollback when it failed.
LegacyStep ==
    /\ pc = "steps"
    /\ idx <= nfns
    /\ IF ctx = "canceled"
       THEN \E rok \in BOOLEAN :
            /\ log' = Append(log, Event("Rollback", i + 1, idx, IF rok THEN "ok" ELSE "fail", TxCtx, ctx, ctx, "ctxdone"))
            /\ tx' = 0
            /\ LegacyReturned(StopError(multierrorAppend(Canceled,
                   Wrap(IF rok THEN Nil ELSE Leaf("R"), "rolling back transaction"))))
            /\ UNCHANGED <<ctx, idx>>
       ELSE \E kind \in kinds, cancels \in BOOLEAN :
            /\ ctx' = IF cancels THEN "canceled" ELSE ctx
            /\ IF LegacyRecover(kind) = Nil
               THEN /\ log' = Append(log, Event("Step", i + 1, idx, kind, "-", "-", ctx, IF cancels THEN "cancels" ELSE "-"))
                    /\ idx' = idx + 1
                    /\ UNCHANGED <<pc, i, tx, err, ret, errs>>
               ELSE \E rok \in BOOLEAN :
                    /\ log' = log \o << Event("Step", i + 1, idx, kind, "-", "-", ctx, IF cancels THEN "cancels" ELSE "-"),
                                        Event("Rollback", i + 1, idx, IF rok THEN "ok" ELSE "fail", TxCtx, ctx', ctx', "steperr") >>
                    /\ tx' = 0
                    /\ LegacyReturned(LegacyClassify(LegacyRecover(kind),
                           multierrorAppend(LegacyRecover(kind),
                               Wrap(IF rok THEN Nil ELSE Leaf("R"), "rolling back transaction"))))
                    /\ UNCHANGED idx
    /\ UNCHANGED <<conn, conf, kinds, pgx, newErr, nfns>>
    /\ UNCHANGED concVars
    /\ UNCHANGED auxVars

\* return errors.Wrap(tx.Commit(ctx), "committing transaction")
LegacyCommit ==
    /\ pc = "steps"
    /\ idx > nfns
    /\ \E ok \in BOOLEAN :
        /\ log' = Append(log, Event("Commit", i + 1, 0, IF ok THEN "ok" ELSE "fail", TxCtx, ctx, ctx, "-"))
        /\ LegacyReturned(Wrap(IF ok THEN Nil ELSE Leaf("Cm"), "committing transaction"))
    /\ tx' = 0
    /\ UNCHANGED <<conn, conf, kinds, pgx, newErr, ctx, nfns, idx>>
    /\ UNCHANGED concVars
    /\ UNCHANGED auxVars

NextLegacy ==
    NewTransaction \/ TransactionPGX \/ TransactionDB \/ LegacyAttempt \/ LegacyStep \/ LegacyCommit \/ Cancel

SpecLegacy == InitLegacy /\ [][NextLegacy]_vars

\* The steps that returned a StopError, by value or by pointer.
StopSteps == {n \in Calls("Step") : log[n].r \in {"stop", "stopValue"}}
\* The error of the failed Rollback at position n of the log, nil when it
\* succeeded.
RollbackErr(n) == Wrap(IF log[n].r = "ok" THEN Nil ELSE Leaf("R"), "rolling back transaction")

\* C20: in the legacy executor a step returning retry.StopError by value and
\* one returning *retry.StopError are treated alike: the transaction is
\* rolled back right after the step, nothing follows that rollback whatever
\* budget remains, the attempt hands the scheduler a *StopError around the
\* step's error merged with the rollback error, and the error returned to
\* the caller contains the Err of the step's StopError.
C20_LegacyStopForms ==
    \A n \in StopSteps :
        LET a == log[n].a
            merged == multierrorAppend(LegacyFnReturn(log[n].r), RollbackErr(n + 1))
        IN /\ Len(log) = n + 1
           /\ log[n + 1].op = "Rollback" /\ log[n + 1].a = a
           /\ tx = 0 /\ pc = "done"
           /\ Len(errs) = a /\ a <= Budget
           /\ errs[a] = StopError(merged)
           /\ Is(ret, "Cause")

C20_Witness ==
    /\ Budget = 3 /\ Len(errs) = 2 /\ pc = "done"
    /\ \E n \in StopSteps : log[n].r = "stopValue" /\ log[n].a = 2
    /\ Is(ret, "Cause")
    /\ Method = "DB"

\* ------------------------------------------------------------ concurrent invocations
\* Several goroutines call Transaction on one executor.  Each invocation
\* runs the code of Transaction with its own arguments and locals (ctx, fns,
\* the closure's tx and err); the executor's fields are shared and only
\* read.  The pool numbers the handles it hands out.

\* Step outcomes of the concurrent callers.
ConcKinds == {"nil", "E", "stop"}

\* Variant: the handle is kept in a field of the executor, so every
\* invocation uses the handle of the latest Begin.
HandleOfShared(g) == opened

\* The handle an invocation passes to its steps, commits or rolls back: the
\* closure's local tx.
HandleOf(g) == calls[g].tx

\* One entry of the history of handle uses.
Use(g, op) == [g |-> g, a |-> calls[g].i + 1, op |-> op, h |-> HandleOf(g)]

\* The invocation c after its attempt closure returned e to DoContext.
ConcAfter(c, e) ==
    IF e = Nil THEN [c EXCEPT !.pc = "done", !.out = "nil", !.tx = 0]
    ELSE IF FindStop(e) # Nil THEN [c EXCEPT !.pc = "done", !.out = "stop", !.tx = 0]
    ELSE IF c.i + 1 >= pgx.loop.Attempts
         THEN [c EXCEPT !.pc = "done", !.out = "exhausted", !.i = c.i + 1, !.tx = 0]
         ELSE [c EXCEPT !.pc = "loop", !.i = c.i + 1, !.tx = 0]

\* The executor is constructed with a pool and a budget; no goroutine has
\* called yet.
InitConc ==
    /\ conn = "pool"
    /\ conf \in {<<Retry(n, 1)>> : n \in 1..ConcAttempts}
    /\ kinds = ConcKinds
    /\ pgx = NewResult(conn, conf).obj /\ newErr = Nil /\ pc = "ready" /\ ctx = "live"
    /\ nfns = 0 /\ i = 0 /\ idx = 0 /\ tx = 0
    /\ err = Nil /\ ret = Nil /\ errs = <<>> /\ log = <<>>
    /\ calls = NoCalls /\ opened = 0 /\ uses = {}
    /\ vr = NoRecorder /\ rt = NoRetry /\ prev = <<>> /\ wt = NoWT

\* Goroutine g calls tr.Transaction(ctx, fns...) with n step functions.
ConcCall(g) ==
    /\ calls[g].pc = "idle"
    /\ \E n \in 1..ConcFns :
         calls' = [calls EXCEPT ![g] = [@ EXCEPT !.pc = "loop", !.nfns = n, !.i = 0]]
    /\ UNCHANGED <<opened, uses>>
    /\ UNCHANGED coreVars
    /\ UNCHANGED auxVars

\* One iteration of g's DoContext up to p.pool.Begin(ctx).
ConcAttempt(g) ==
    /\ calls[g].pc = "loop"
    /\ IF LoopCtx(calls[g].ctx) = "canceled"
       THEN /\ calls' = [calls EXCEPT ![g] = [@ EXCEPT !.pc = "done", !.out = "canceled"]]
            /\ UNCHANGED <<opened, uses>>
       ELSE \E ok \in BOOLEAN :
            IF ok
            THEN /\ opened' = opened + 1
                 /\ calls' = [calls EXCEPT ![g] = [@ EXCEPT !.pc = "steps", !.tx = opened + 1, !.idx = FirstFn]]
                 /\ uses' = uses \cup {[g |-> g, a |-> calls[g].i + 1, op |-> "Begin", h |-> opened + 1]}
            ELSE /\ calls' = [calls EXCEPT ![g] = ConcAfter(@, BeginError)]
                 /\ uses' = uses \cup {[g |-> g, a |-> calls[g].i + 1, op |-> "BeginFail", h |-> 0]}
                 /\ UNCHANGED opened
    /\ UNCHANGED coreVars
    /\ UNCHANGED auxVars

\* One turn of g's loop over fns.
ConcStep(g) ==
    /\ calls[g].pc = "steps"
    /\ calls[g].idx <= calls[g].nfns
    /\ IF CtxDone(calls[g].ctx)
       THEN \E rok \in BOOLEAN :
            /\ uses' = uses \cup {Use(g, "Rollback")}
            /\ calls' = [calls EXCEPT ![g] = ConcAfter(@, StopError(rollbackWithErr(rok, Canceled)))]
       ELSE \E kind \in kinds :
            IF Recover(kind) = Nil
            THEN /\ uses' = uses \cup {Use(g, "Step")}
                 /\ calls' = [calls EXCEPT ![g] = [@ EXCEPT !.idx = @ + 1]]
            ELSE \E rok \in BOOLEAN :
                 /\ uses' = uses \cup {Use(g, "Step"), Use(g, "Rollback")}
                 /\ calls' = [calls EXCEPT ![g] = ConcAfter(@, rollbackWithErr(rok, Classify(Recover(kind))))]
    /\ UNCHANGED opened
    /\ UNCHANGED coreVars
    /\ UNCHANGED auxVars

\* g's tx.Commit(ctx) after its last step.
ConcCommit(g) ==
    /\ calls[g].pc = "steps"
    /\ calls[g].idx > calls[g].nfns
    /\ \E ok \in BOOLEAN :
        /\ uses' = uses \cup {Use(g, "Commit")}
        /\ calls' = [calls EXCEPT ![g] = ConcAfter(@, CommitResult(ok))]
    /\ UNCHANGED opened
    /\ UNCHANGED coreVars
    /\ UNCHANGED auxVars

\* The context of g's call is cancelled by its owner.
ConcCancel(g) ==
    /\ calls[g].pc \in {"loop", "steps"}
    /\ calls[g].ctx = "live"
    /\ calls' = [calls EXCEPT ![g] = [@ EXCEPT !.ctx = "canceled"]]
    /\ UNCHANGED <<opened, uses>>
    /\ UNCHANGED coreVars
    /\ UNCHANGED auxVars

NextConc ==
    \E g \in Goroutines :
        ConcCall(g) \/ ConcAttempt(g) \/ ConcStep(g) \/ ConcCommit(g) \/ ConcCancel(g)

SpecConc == InitConc /\ [][NextConc]_vars

\* The Begin calls that returned a handle, and the attempts of goroutine g.
Opens == {u \in uses : u.op = "Begin"}
AttemptsOf(g) == {u.a : u \in {v \in uses : v.g = g /\ v.op \in {"Begin", "BeginFail"}}}

\* C18: every handle is opened by one Begin; a handle passed to a step,
\* committed or rolled back was opened by the same invocation in the same
\* attempt, so it is never used by a later attempt or by another goroutine;
\* the handle an invocation holds is one it opened in its running attempt;
\* and each invocation makes at most Budget attempts, exactly Budget when it
\* ends by exhaustion, whatever the other invocations do.
C18_HandleOwnership ==
    /\ \A b1, b2 \in Opens : b1.h = b2.h => b1 = b2
    /\ \A u \in uses : u.op \in {"Step", "Commit", "Rollback"} =>
          \E b \in Opens : b.h = u.h /\ b.g = u.g /\ b.a = u.a
    /\ \A g \in Goroutines :
          /\ calls[g].tx # 0 =>
                [g |-> g, a |-> calls[g].i + 1, op |-> "Begin", h |-> calls[g].tx] \in uses
          /\ Cardinality(AttemptsOf(g)) <= Budget
          /\ AttemptsOf(g) = 1..Cardinality(AttemptsOf(g))
          /\ calls[g].out = "exhausted" => Cardinality(AttemptsOf(g)) = Budget

C18_Witness ==
    /\ Budget >= 2
    /\ calls[1].pc = "steps" /\ calls[2].pc = "steps"
    /\ calls[1].i = 1 /\ calls[2].i = 0
    /\ \E u \in uses : u.g = 1 /\ u.a = 2 /\ u.op = "Step"
    /\ \E u \in uses : u.g = 2 /\ u.a = 1 /\ u.op = "Step"
    /\ \E u \in uses : u.g = 1 /\ u.a = 1 /\ u.op = "Rollback" /\ u.h < calls[2].tx
    /\ calls[2].tx < calls[1].tx

\* ------------------------------------------------------------ dbtesting.ValueRecorder
\* The recorder is a map from names to cells [val, valid]; Record and For
\* hand out the cell of a name as a matcher, Match is called on it by the
\* mock with the argument of a query.

\* Longest sequence of calls made on one recorder.
MaxCalls == 4
\* Names the caller uses.
Names == {"x", "y"}
\* Arguments the mock presents to a matcher: a value with its dynamic type.
Values == {[t |-> "int", v |-> 1], [t |-> "int64", v |-> 1], [t |-> "int", v |-> 2]}
\* The zero value of the val field.
NoValue == [t |-> "nil", v |-> 0]
\* &value{}
ZeroCell == [val |-> NoValue, valid |-> FALSE]

\* reflect.DeepEqual(a, b): same dynamic type and same value.
DeepEqual(a, b) == a.t = b.t /\ a.v = b.v

\* One call on the recorder: what was called, with which name and argument,
\* on the matcher obtained from which method, whether it returned or
\* panicked ("ok", "panic", "true", "false") and the value it returned.
RecCall(op, name, via, arg, res, out) ==
    [op |-> op, name |-> name, via |-> via, arg |-> arg, res |-> res, out |-> out]

\* Variant: Record overwrites the cell of a name that is already there.
RecordPanicsNever(m, s) == FALSE

\* _, ok := v[s]; if ok { panic(s + " recorded twice") }
RecordPanics(m, s) == s \in DOMAIN m

\* Variant: a cell counts as recorded only once it holds a value.
NotRecordedUntilValid(m, s) == s \notin DOMAIN m \/ ~m[s].valid

\* id, ok := v[s]; if !ok || id == nil { panic(s + " not recorded yet") }
NotRecorded(m, s) == s \notin DOMAIN m

\* Variant: every value presented is stored and accepted.
MatchOfStoresAlways(c, val) == [cell |-> [val |-> val, valid |-> TRUE], res |-> "true"]

\* Variant: a cell that holds no value yet compares like any other.
MatchOfComparesUnset(c, val) ==
    [cell |-> c, res |-> IF DeepEqual(val, c.val) THEN "true" ELSE "false"]

\* (*value).Match(val): the cell afterwards and the result. The first value
\* is stored and accepted, later ones are compared with reflect.DeepEqual.
MatchOf(c, val) ==
    IF ~c.valid
    THEN [cell |-> [val |-> val, valid |-> TRUE], res |-> "true"]
    ELSE [cell |-> c, res |-> IF DeepEqual(val, c.val) THEN "true" ELSE "false"]

\* v[s] = &value{}
Put(m, s, c) == [n \in DOMAIN m \cup {s} |-> IF n = s THEN c ELSE m[n]]

\* A matcher for name s has been handed out by the method via.
Obtained(s, via) ==
    \E n \in DOMAIN vr.hist :
        vr.hist[n].op = via /\ vr.hist[n].name = s /\ vr.hist[n].res = "ok"

InitRecorder ==
    /\ conn = "nil" /\ conf = <<>> /\ kinds = {}
    /\ pgx = NoPGX /\ newErr = Nil /\ pc = "start" /\ ctx = "live"
    /\ nfns = 0 /\ i = 0 /\ idx = 0 /\ tx = 0
    /\ err = Nil /\ ret = Nil /\ errs = <<>> /\ log = <<>>
    /\ calls = NoCalls /\ opened = 0 /\ uses = {}
    /\ vr = NoRecorder /\ rt = NoRetry /\ prev = <<>> /\ wt = NoWT

\* rec := dbtesting.NewValueRecorder()
NewValueRecorder ==
    /\ ~vr.made
    /\ vr' = [made |-> TRUE, m |-> <<>>, hist |-> <<>>]
    /\ UNCHANGED <<coreVars, concVars, rt, prev, wt>>

\* rec.Record(s)
Record(s) ==
    /\ vr.made /\ Len(vr.hist) < MaxCalls
    /\ IF RecordPanics(vr.m, s)
       THEN vr' = [vr EXCEPT !.hist = Append(@, RecCall("Record", s, "-", NoValue, "panic", NoValue))]
       ELSE vr' = [vr EXCEPT !.m = Put(@, s, ZeroCell),
                             !.hist = Append(@, RecCall("Record", s, "-", NoValue, "ok", NoValue))]
    /\ UNCHANGED <<coreVars, concVars, rt, prev, wt>>

\* rec.For(s)
For(s) ==
    /\ vr.made /\ Len(vr.hist) < MaxCalls
    /\ vr' = [vr EXCEPT !.hist = Append(@, RecCall("For", s, "-", NoValue,
                           IF NotRecorded(vr.m, s) THEN "panic" ELSE "ok", NoValue))]
    /\ UNCHANGED <<coreVars, concVars, rt, prev, wt>>

\* rec.Value(s)
Value(s) ==
    /\ vr.made /\ Len(vr.hist) < MaxCalls
    /\ vr' = [vr EXCEPT !.hist = Append(@,
                 IF NotRecorded(vr.m, s)
                 THEN RecCall("Value", s, "-", NoValue, "panic", NoValue)
                 ELSE RecCall("Value", s, "-", NoValue, "ok", vr.m[s].val))]
    /\ UNCHANGED <<coreVars, concVars, rt, prev, wt>>

\* (*value).Match(val) on the matcher of name s obtained from Record or For.
Match(s, via, val) ==
    /\ vr.made /\ Len(vr.hist) < MaxCalls
    /\ Obtained(s, via)
    /\ vr' = [vr EXCEPT !.m = Put(@, s, MatchOf(vr.m[s], val).cell),
                          !.hist = Append(@, RecCall("Match", s, via, val, MatchOf(vr.m[s], val).res, NoValue))]
    /\ UNCHANGED <<coreVars, concVars, rt, prev, wt>>

NextRecorder ==
    \/ NewValueRecorder
    \/ \E s \in Names : Record(s) \/ For(s) \/ Value(s)
    \/ \E s \in Names, via \in {"Record", "For"}, val \in Values : Match(s, via, val)

SpecRecorder == InitRecorder /\ [][NextRecorder]_vars

\* Positions of the recorder's history holding a call op(s).
RecCalls(op, s) == {n \in DOMAIN vr.hist : vr.hist[n].op = op /\ vr.hist[n].name = s}

\* C21: over any sequence of calls on one recorder, a Record(s) returns
\* exactly when no Record(s) was called before it and panics otherwise,
\* whatever was recorded under other names; so at most one Record per name
\* returns.
C21_RecordOnce ==
    \A s \in Names :
        /\ \A n \in RecCalls("Record", s) :
              (vr.hist[n].res = "ok") <=> (\A k \in RecCalls("Record", s) : k >= n)
        /\ \A n \in RecCalls("Record", s) : vr.hist[n].res \in {"ok", "panic"}
        /\ Cardinality({n \in RecCalls("Record", s) : vr.hist[n].res = "ok"}) <= 1

C21_Witness ==
    /\ Len(vr.hist) = 3
    /\ vr.hist[1].op = "Record" /\ vr.hist[1].name = "x" /\ vr.hist[1].res = "ok"
    /\ vr.hist[2].op = "Record" /\ vr.hist[2].name = "x" /\ vr.hist[2].res = "panic"
    /\ vr.hist[3].op = "Record" /\ vr.hist[3].name = "y" /\ vr.hist[3].res = "ok"

\* C22: a For(s) or Value(s) panics exactly when no Record(s) was called
\* before it.
C22_ForValueNeedRecord ==
    \A s \in Names : \A op \in {"For", "Value"} : \A n \in RecCalls(op, s) :
        (vr.hist[n].res = "panic") <=> (\A k \in RecCalls("Record", s) : k > n)

C22_Witness ==
    /\ Len(vr.hist) = 4
    /\ vr.hist[1].op = "For" /\ vr.hist[1].name = "x" /\ vr.hist[1].res = "panic"
    /\ vr.hist[2].op = "Record" /\ vr.hist[2].name = "x"
    /\ vr.hist[3].op = "For" /\ vr.hist[3].name = "x" /\ vr.hist[3].res = "ok"
    /\ vr.hist[4].op = "Value" /\ vr.hist[4].name = "x" /\ vr.hist[4].res = "ok"

\* ------------------------------------------------------------ legacy Retry
\* Retry(retries, delay, fn) of the first generation of the package: a
\* plain loop that calls fn(i), sleeps delay*(i+1) after a failure and gives
\* up after retries calls.

\* Largest retries argument.
MaxRetries == 4
\* What fn can do when called: return nil, one of two errors, io.EOF, or
\* panic.
RetryOutcomes == {"nil", "E1", "E2", "io.EOF", "panic"}
\* The delay argument, in milliseconds.
RetryDelays == {0, 5}
\* The errors Retry takes for a failure of fn.
RetryFailures == {"E1", "E2"}

\* Variant: the loop runs while i <= retries.
RetryContinuesInclusive(r) == r.i <= r.retries

\* for i := 0; i < retries; i++
RetryContinues(r) == r.i < r.retries

\* Variant: only nil ends the loop.
RetrySucceededNilOnly(e) == e = "nil"

\* switch err { case io.EOF, nil: return nil }
RetrySucceeded(e) == e \in {"io.EOF", "nil"}

InitRetry ==
    /\ conn = "nil" /\ conf = <<>> /\ kinds = {}
    /\ pgx = NoPGX /\ newErr = Nil /\ pc = "start" /\ ctx = "live"
    /\ nfns = 0 /\ i = 0 /\ idx = 0 /\ tx = 0
    /\ err = Nil /\ ret = Nil /\ errs = <<>> /\ log = <<>>
    /\ calls = NoCalls /\ opened = 0 /\ uses = {}
    /\ vr = NoRecorder /\ rt = NoRetry /\ prev = <<>> /\ wt = NoWT

\* Retry(n, delay, fn) is called.
RetryCall ==
    /\ rt.pc = "idle"
    /\ \E n \in (-1)..MaxRetries, d \in RetryDelays :
         rt' = [rt EXCEPT !.pc = "loop", !.retries = n, !.delay = d, !.i = 0, !.err = "nil"]
    /\ UNCHANGED <<coreVars, concVars, vr, prev, wt>>

\* One turn of the loop: err = fn(i), the switch and the sleep.
RetryIteration ==
    /\ rt.pc = "loop"
    /\ RetryContinues(rt)
    /\ \E r \in RetryOutcomes :
        rt' = IF r = "panic"
              THEN [rt EXCEPT !.pc = "panicked", !.hist = Append(@, [i |-> rt.i, r |-> r, sleep |-> 0])]
              ELSE IF RetrySucceeded(r)
              THEN [rt EXCEPT !.pc = "done", !.err = r, !.ret = "nil",
                              !.hist = Append(@, [i |-> rt.i, r |-> r, sleep |-> 0])]
              ELSE [rt EXCEPT !.err = r, !.i = @ + 1,
                              !.hist = Append(@, [i |-> rt.i, r |-> r, sleep |-> rt.delay * (rt.i + 1)])]
    /\ UNCHANGED <<coreVars, concVars, vr, prev, wt>>

\* The loop is over: return err.
RetryReturn ==
    /\ rt.pc = "loop"
    /\ ~RetryContinues(rt)
    /\ rt' = [rt EXCEPT !.pc = "done", !.ret = rt.err]
    /\ UNCHANGED <<coreVars, concVars, vr, prev, wt>>

NextRetry == RetryCall \/ RetryIteration \/ RetryReturn

SpecRetry == InitRetry /\ [][NextRetry]_vars

C24_Original ==
    \A n \in Calls("Rollback") :
        /\ log[n].why = "steperr" => log[n].on = "caller"
        /\ log[n].on = "grace" => log[n].why = "ctxdone"

\* C24, amended: every Rollback, after a step error as well as after a
\* detected cancellation, is issued on the fresh context bounded by the
\* grace period, whose state does not depend on the caller's context; the
\* caller's context is handed to Begin and Commit only.
C24_RollbackContext ==
    /\ \A n \in Calls("Rollback") :
          /\ log[n].on = "grace"
          /\ log[n].st = IF pgx.gracePeriod > 0 THEN "live" ELSE "expired"
    /\ \A n \in Calls("Begin") \cup Calls("Commit") :
          log[n].on = "caller" /\ log[n].st = log[n].cx

C24_Witness ==
    \E n \in Calls("Rollback") :
        /\ log[n].why = "steperr" /\ log[n].cx = "live"
        /\ log[n].on = "grace" /\ log[n].st = "live"
        /\ log[n - 1].r \in {"E", "panicStr"}

\* Rollbacks after a step whose error is a stop sentinel or is traceable to
\* context.Canceled, panics carrying such a value included.
TerminalStepRollbacks ==
    {n \in Calls("Rollback") :
        /\ log[n].why = "steperr"
        /\ (FindStop(Recover(log[n - 1].r)) # Nil \/ Is(Recover(log[n - 1].r), "context.Canceled"))}

\* C25: when the failing step's error is a stop sentinel or indicates
\* cancellation, what the attempt closure returns is a StopError whose inner
\* error is the step error merged with the rollback error: the StopError is
\* the outermost layer and a failed rollback's error R is inside it.
C25_StopWrapsCombined ==
    \A n \in TerminalStepRollbacks :
        LET e == errs[log[n].a]
        IN /\ e.k = "StopError"
           /\ Is(e.of[1], CauseOf(log[n - 1].r))
           /\ log[n].r = "fail" => Is(e.of[1], "R")

\* What the code does instead: the StopError is around the step error only
\* and the rollback error is joined beside it.
C25_StopWrapsStepOnly ==
    \A n \in TerminalStepRollbacks :
        LET e == errs[log[n].a]
        IN /\ e.k = "join"
           /\ FindStop(e) # Nil /\ ~Is(FindStop(e), "R")
           /\ log[n].r = "fail" => Is(e, "R")

\* Panic values that are an error traceable to context.Canceled or carrying
\* a *retry.StopError.
TerminalPanics == {"panicCanceled", "panicStop"}

\* The invocation ended with the rollback at position n although budget
\* remained and the caller's context was never cancelled.
HaltedAt(n) == pc = "done" /\ Len(log) = n /\ log[n].a < Budget /\ ctx = "live"

\* After the rollback at position n the loop goes on: the next attempt is
\* about to start or has started.
ContinuedAfter(n) ==
    \/ pc = "loop" /\ Len(log) = n /\ i = log[n].a
    \/ Len(log) > n /\ log[n + 1].op = "Begin" /\ log[n + 1].a = log[n].a + 1

\* C26 as stated: whatever value a step panics with, the attempt is rolled
\* back and the loop is not halted by it: with budget remaining and the
\* context never cancelled the invocation has not ended at that rollback.
C26_Original ==
    \A n \in Calls("Step") : log[n].r \in PanicKinds =>
        /\ log[n + 1].op = "Rollback" /\ log[n + 1].a = log[n].a
        /\ ~HaltedAt(n + 1)

\* C26, amended: a panic is rolled back and then treated as the error it
\* was converted to.  With a string or a plain error as the panic value the
\* loop goes on while budget remains and the context is not cancelled; with
\* an error traceable to context.Canceled or carrying a *retry.StopError the
\* loop halts at that attempt whatever budget remains.
C26_PanicRetryability ==
    \A n \in Calls("Step") : log[n].r \in PanicKinds =>
        /\ log[n + 1].op = "Rollback" /\ log[n + 1].a = log[n].a
        /\ Is(errs[log[n].a], "errPanic")
        /\ log[n].r \in PlainPanics =>
              /\ ~HaltedAt(n + 1)
              /\ (log[n].a < Budget /\ ctx = "live") => ContinuedAfter(n + 1)
        /\ log[n].r \in TerminalPanics =>
              /\ pc = "done" /\ Len(log) = n + 1
              /\ ret # Nil

C26_Witness ==
    /\ Budget = 3 /\ ctx = "live" /\ pc = "done" /\ Len(errs) = 2
    /\ \E n \in Calls("Step") : log[n].a = 1 /\ log[n].r = "panicE"
    /\ \E n \in Calls("Step") : log[n].a = 2 /\ log[n].r = "panicCanceled" /\ HaltedAt(n + 1)

\* Step outcomes that are a failure without a stop signal: a plain error, or
\* a panic with a string or a plain error.
PlainFailures == {"E"} \cup PlainPanics

\* Every attempt so far opened a transaction, ran into a step failing with a
\* non-stop error and had its Rollback fail; the context was never
\* cancelled.
AllAttemptsRollbackFailed ==
    /\ ctx = "live" /\ BeginsOk /\ Calls("Commit") = {}
    /\ \A n \in Calls("Step") : log[n].r \in PlainFailures \cup {"nil"}
    /\ \A n \in Calls("Rollback") : log[n].why = "steperr" /\ log[n].r = "fail"

\* C27: when on every attempt a step fails or panics with a non-stop error
\* and the Rollback fails too, the invocation makes exactly Budget attempts
\* - Budget Begin calls, Budget failing step calls, Budget Rollback calls -
\* and returns a non-nil error traceable to the last step failure (and to
\* the rollback failure).
C27_RollbackFailureRetried ==
    (Returns /\ Budget >= 1 /\ AllAttemptsRollbackFailed) =>
        /\ Count("Begin") = Budget
        /\ Count("Rollback") = Budget
        /\ Cardinality({n \in Calls("Step") : log[n].r \in PlainFailures}) = Budget
        /\ \A a \in 1..Budget : CountIn("Begin", a) = 1 /\ CountIn("Rollback", a) = 1
        /\ Len(errs) = Budget
        /\ ret # Nil
        /\ Is(ret, CauseOf(log[Len(log) - 1].r))
        /\ Is(ret, "R")

C27_Witness ==
    /\ Returns /\ Budget = 3 /\ AllAttemptsRollbackFailed
    /\ Count("Rollback") = 3
    /\ \E n \in Calls("Step") : log[n].r = "panicStr"
    /\ log[Len(log) - 1].r = "E"
    /\ Is(ret, "E") /\ Is(ret, "R")

\* Step invocations during which the caller's context was cancelled and
\* which returned an error wrapping context.Canceled.
CancelledInStep ==
    {n \in Calls("Step") : log[n].why = "cancels" /\ log[n].r = "canceled"}

\* C28: when the context is cancelled while step j of attempt a runs and
\* the step returns an error wrapping context.Canceled, the transaction is
\* rolled back and that rollback is the last call of the invocation - no
\* later step, no further attempt whatever budget remains -, the error
\* returned is traceable to context.Canceled, and when a = 1 each earlier
\* step was invoked exactly once in total.
C28_CancelThroughStep ==
    \A n \in CancelledInStep :
        LET a == log[n].a
            j == log[n].j
        IN /\ log[n + 1].op = "Rollback" /\ log[n + 1].a = a /\ log[n + 1].why = "steperr"
           /\ Len(log) = n + 1
           /\ pc = "done" /\ tx = 0 /\ Len(errs) = a
           /\ \A k \in Calls("Step") : ~(log[k].a = a /\ log[k].j > j)
           /\ Is(ret, "context.Canceled")
           /\ a = 1 => \A l \in 1..(j - 1) :
                          Cardinality({k \in Calls("Step") : log[k].j = l}) = 1
           /\ Cardinality({k \in Calls("Step") : log[k].j = j /\ log[k].a = a}) = 1

C28_Witness ==
    /\ Budget = 3 /\ nfns = 2
    /\ \E n \in CancelledInStep : log[n].a = 1 /\ log[n].j = 2 /\ log[n + 1].r = "fail"
    /\ Count("Step") = 2 /\ Count("Begin") = 1
    /\ Is(ret, "context.Canceled")

\* ------------------------------------------------------------ a second call
\* The caller invokes Transaction again on the same executor once the
\* first call has returned.

\* Variant: the attempts made are taken off the executor's budget.
AfterTransactionSpendsBudget(p) == [p EXCEPT !.loop.Attempts = @ - Len(errs)]

\* The executor after Transaction has returned: Transaction and
\* rollbackWithErr read p.pool, p.loop and p.gracePeriod and assign to none
\* of them.
AfterTransaction(p) == p

\* The first call has returned and the caller prepares the next one, with a
\* context of its own; the history of the first call is summed up in prev.
Again ==
    /\ pc = "done"
    /\ prev = <<>>
    /\ prev' = <<[pgx |-> pgx, attempts |-> Len(errs), failed |-> ret # Nil]>>
    /\ pgx' = AfterTransaction(pgx)
    /\ pc' = "ready" /\ ctx' = "live"
    /\ nfns' = 0 /\ i' = 0 /\ idx' = 0 /\ tx' = 0
    /\ err' = Nil /\ ret' = Nil /\ errs' = <<>> /\ log' = <<>>
    /\ UNCHANGED <<conn, conf, kinds, newErr>>
    /\ UNCHANGED <<concVars, vr, rt, wt>>

NextTwice == Next \/ Again

SpecTwice == Init /\ [][NextTwice]_vars

\* Every attempt of the running call failed without a stop signal and the
\* caller's context was never cancelled.
AllAttemptsPlainFailed ==
    /\ ctx = "live"
    /\ \A a \in DOMAIN errs : errs[a] # Nil /\ FindStop(errs[a]) = Nil

\* C29: no execution of Transaction changes the executor: from construction
\* on the executor is the one New built (or the zero value), it is the same
\* before the second call as before the first - pool, attempts, delay, delay
\* method and grace period -, and the second call has the full budget: when
\* all its attempts fail it makes as many attempts as the budget the
\* executor had before the first call.
C29_ExecutorUnchanged ==
    /\ pc \notin {"start", "noexec"} => pgx \in {NewResult(conn, conf).obj, ZeroPGX}
    /\ prev # <<>> =>
          /\ pgx = prev[1].pgx
          /\ Budget = prev[1].pgx.loop.Attempts
          /\ (Returns /\ AllAttemptsPlainFailed) => Len(errs) = prev[1].pgx.loop.Attempts

C29_Witness ==
    /\ prev # <<>> /\ prev[1].attempts = 3 /\ prev[1].failed
    /\ Returns /\ AllAttemptsPlainFailed /\ Len(errs) = 3
    /\ pgx.loop.Attempts = 3

\* ------------------------------------------------------------ termination
\* The calls an invocation makes all return: Begin and the delay before it
\* (Attempt), a step and the rollback after it (Step), Commit. Nothing is
\* assumed of the caller: it need not call Transaction nor cancel its context.
Fairness == WF_vars(Attempt) /\ WF_vars(Step) /\ WF_vars(Commit)

SpecFair == Init /\ [][Next]_vars /\ Fairness

\* An invocation that has entered the retry loop and has not returned.
Running == pc \in {"loop", "steps"}

\* The attempt that ended last carried a stop signal.
StoppedLast == errs # <<>> /\ FindStop(errs[Len(errs)]) # Nil

\* Begin was called at most Budget times in at most Budget attempts, and a
\* returned invocation gave nil after a successful Commit or an error after
\* exhaustion, a stop signal or cancellation.
BoundedOutcome ==
    /\ pgx.pool = "pool" => Count("Begin") <= Budget /\ Len(errs) <= Budget /\ i <= Budget
    /\ Returns =>
          \/ /\ ret = Nil
             /\ log # <<>> /\ log[Len(log)].op = "Commit" /\ log[Len(log)].r = "ok"
          \/ /\ ret # Nil
             /\ \/ Len(errs) = Budget /\ ~StoppedLast
                \/ StoppedLast
                \/ ctx = "canceled"

\* C30: when every Begin, step, Commit and Rollback call returns or panics,
\* an invocation that entered the retry loop eventually returns; at every
\* moment it has made at most N attempts and at most N Begin calls (N the
\* attempt budget), and it returns nil after a successful Commit or an error
\* after exhaustion, a stop signal or cancellation.
C30_Termination == [](BoundedOutcome) /\ (Running ~> Returns)

C30_Witness ==
    /\ Returns /\ Budget = MaxAttempts /\ Count("Begin") = MaxAttempts
    /\ ret # Nil /\ ~StoppedLast /\ ctx = "live"
    /\ \E n \in Calls("Step") : FnPanics(log[n].r)

\* ------------------------------------------------------------ legacy executor: cancellation by a step
\* The steps that cancelled the caller's context and returned the plain
\* error E.
CancellingSteps == {n \in Calls("Step") : log[n].why = "cancels" /\ log[n].r = "E"}

\* Every step invoked so far returned the plain error E, so every attempt
\* that reached its steps invoked exactly one.
EveryStepFailsPlainly == \A m \in Calls("Step") : log[m].r = "E"

WTKinds == {"nil", "E", "panic"}

\* One call recorded in wt.log: op is "Begin", "Fn", "Rollback" or "Commit",
\* a the iteration of Retry (1 under WithTransaction alone), j the index of
\* the function, r the outcome, cx the state of the context when the call
\* was made, c whether the call cancelled the context.
WTEvent(op, a, j, r, cx, c) == [op |-> op, a |-> a, j |-> j, r |-> r, cx |-> cx, c |-> c]

\* err := f(tx) is a plain call: WithTransaction defers no recover, and
\* neither do Retry and RetryTransaction.
WithTransactionRecovers == FALSE

\* Variant: the closure handed to Retry does not look at the context.
ClosureCtxDoneNever(c) == FALSE

\* select { case <-ctx.Done(): return ctx.Err() } in the closure handed to
\* Retry.
ClosureCtxDone(c) == c = "canceled"

\* WithTransaction has returned e: to its caller when it was called alone,
\* to the loop of Retry otherwise (switch err { case io.EOF, nil: return nil },
\* then the sleep and i++).
WTReturned(w, e) ==
    IF w.mode = "with" THEN [w EXCEPT !.pc = "done", !.ret = e]
    ELSE IF RetrySucceeded(e.k) THEN [w EXCEPT !.pc = "done", !.err = e, !.ret = Nil]
    ELSE [w EXCEPT !.pc = "retry", !.err = e, !.i = @ + 1]

InitWT ==
    /\ conn = "nil" /\ conf = <<>> /\ kinds = {}
    /\ pgx = NoPGX /\ newErr = Nil /\ pc = "start" /\ ctx = "live"
    /\ nfns = 0 /\ i = 0 /\ idx = 0 /\ tx = 0
    /\ err = Nil /\ ret = Nil /\ errs = <<>> /\ log = <<>>
    /\ calls = NoCalls /\ opened = 0 /\ uses = {}
    /\ vr = NoRecorder /\ rt = NoRetry /\ prev = <<>> /\ wt = NoWT

\* WithTransaction(db, fn...) is called with n functions.
WithTransactionCall ==
    /\ wt.pc = "idle" /\ wt.ctx = "live"
    /\ \E n \in 0..MaxFns : wt' = [wt EXCEPT !.pc = "begin", !.mode = "with", !.nfns = n]
    /\ UNCHANGED <<coreVars, concVars, vr, rt, prev>>

\* RetryTransaction(ctx, db, retries, delay, fn...) is called with n
\* functions: the first select, then Retry starts its loop.
RetryTransactionCall ==
    /\ wt.pc = "idle"
    /\ \E r \in 0..MaxAttempts, n \in 0..MaxFns :
         wt' = IF wt.ctx = "canceled"
               THEN [wt EXCEPT !.pc = "done", !.mode = "retry", !.pre = wt.ctx, !.retries = r, !.nfns = n,
                               !.ret = Canceled]
               ELSE [wt EXCEPT !.pc = "retry", !.mode = "retry", !.pre = wt.ctx, !.retries = r, !.nfns = n,
                               !.i = 0]
    /\ UNCHANGED <<coreVars, concVars, vr, rt, prev>>

\* One turn of the loop of Retry up to the call of WithTransaction: the
\* closure returns ctx.Err() when the context is done.
RTIteration ==
    /\ wt.pc = "retry"
    /\ RetryContinues(wt)
    /\ wt' = IF ClosureCtxDone(wt.ctx) THEN WTReturned(wt, Canceled)
             ELSE [wt EXCEPT !.pc = "begin"]
    /\ UNCHANGED <<coreVars, concVars, vr, rt, prev>>

\* The loop of Retry is over: return err.
RTReturn ==
    /\ wt.pc = "retry"
    /\ ~RetryContinues(wt)
    /\ wt' = [wt EXCEPT !.pc = "done", !.ret = wt.err]
    /\ UNCHANGED <<coreVars, concVars, vr, rt, prev>>

\* tx, err := db.Begin()
WTBegin ==
    /\ wt.pc = "begin"
    /\ \E ok \in BOOLEAN :
         LET w == [wt EXCEPT !.log = Append(@, WTEvent("Begin", wt.i + 1, 0, IF ok THEN "ok" ELSE "fail", wt.ctx, FALSE))]
         IN wt' = IF ok THEN [w EXCEPT !.pc = "fns", !.idx = 1, !.tx = TRUE]
                  ELSE WTReturned(w, Wrap(Leaf("B"), "starting transaction"))
    /\ UNCHANGED <<coreVars, concVars, vr, rt, prev>>

\* One turn of the loop over fn: err := f(tx), and the rollback when it
\* returned an error. A function may cancel the context it shares with the
\* caller of RetryTransaction.
WTFn ==
    /\ wt.pc = "fns"
    /\ wt.idx <= wt.nfns
    /\ \E kind \in WTKinds, cancels \in BOOLEAN :
         /\ cancels => wt.mode = "retry"
         /\ LET cx == IF cancels THEN "canceled" ELSE wt.ctx
                w == [wt EXCEPT !.ctx = cx,
                                !.log = Append(@, WTEvent("Fn", wt.i + 1, wt.idx, kind, wt.ctx, cancels))]
            IN IF kind = "panic" /\ ~WithTransactionRecovers
               THEN wt' = [w EXCEPT !.pc = "panicked"]
               ELSE IF kind = "nil"
               THEN wt' = [w EXCEPT !.idx = @ + 1]
               ELSE \E rok \in BOOLEAN :
                    wt' = WTReturned(
                            [w EXCEPT !.tx = FALSE,
                                      !.log = Append(@, WTEvent("Rollback", wt.i + 1, wt.idx, IF rok THEN "ok" ELSE "fail", cx, FALSE))],
                            multierrorAppend(IF kind = "panic" THEN Wrapf("panic value", errPanic) ELSE Leaf("E"),
                                Wrap(IF rok THEN Nil ELSE Leaf("R"), "rolling back transaction")))
    /\ UNCHANGED <<coreVars, concVars, vr, rt, prev>>

\* return errors.Wrap(tx.Commit(), "committing transaction")
WTCommit ==
    /\ wt.pc = "fns"
    /\ wt.idx > wt.nfns
    /\ \E ok \in BOOLEAN :
         wt' = WTReturned(
                 [wt EXCEPT !.tx = FALSE,
                            !.log = Append(@, WTEvent("Commit", wt.i + 1, 0, IF ok THEN "ok" ELSE "fail", wt.ctx, FALSE))],
                 Wrap(IF ok THEN Nil ELSE Leaf("Cm"), "committing transaction"))
    /\ UNCHANGED <<coreVars, concVars, vr, rt, prev>>

\* The owner of the context cancels it, before RetryTransaction is called
\* or while it runs.
WTCancel ==
    /\ wt.pc \in {"idle", "retry", "begin", "fns"}
    /\ wt.mode # "with"
    /\ wt.ctx = "live"
    /\ wt' = [wt EXCEPT !.ctx = "canceled"]
    /\ UNCHANGED <<coreVars, concVars, vr, rt, prev>>

NextWT ==
    WithTransactionCall \/ RetryTransactionCall \/ RTIteration \/ RTReturn
        \/ WTBegin \/ WTFn \/ WTCommit \/ WTCancel

SpecWT == InitWT /\ [][NextWT]_vars

\* The positions of wt.log holding a call of the kind op.
WTCalls(op) == {n \in DOMAIN wt.log : wt.log[n].op = op}
\* The calls of functions that panicked.
WTPanics == {n \in WTCalls("Fn") : wt.log[n].r = "panic"}

\* C32: when a function handed to WithTransaction panics, the panic stays
\* inside WithTransaction: the transaction is rolled back right after the
\* call, no later function is called, and WithTransaction returns a non-nil
\* error.
C32_PanicContained ==
    wt.mode = "with" =>
        \A n \in WTPanics :
            /\ wt.pc # "panicked"
            /\ Len(wt.log) = n + 1 /\ wt.log[n + 1].op = "Rollback"
            /\ ~wt.tx
            /\ wt.pc = "done" /\ wt.ret # Nil

\* What WithTransaction does with a panicking function: the panic leaves
\* WithTransaction, which returns nothing; the panicking call is the last
\* call made, so no later function runs, and the transaction is neither
\* rolled back nor committed.
C32_PanicPropagates ==
    wt.mode = "with" =>
        \A n \in WTPanics :
            /\ wt.pc = "panicked"
            /\ Len(wt.log) = n
            /\ wt.tx /\ wt.ret = Nil
            /\ WTCalls("Rollback") = {} /\ WTCalls("Commit") = {}

\* The calls in which a function cancelled the context, live until then.
WTCancellingFns == {n \in WTCalls("Fn") : wt.log[n].c /\ wt.log[n].cx = "live"}
\* The attempt running at position n of wt.log ended in a successful Commit.
WTCommitted == wt.log # <<>> /\ wt.log[Len(wt.log)].op = "Commit" /\ wt.log[Len(wt.log)].r = "ok"

\* C33 as stated: once the context is cancelled, before the call or by a
\* function, no transaction is begun and no function is called afterwards,
\* and the returned error is the context's error.
C33_Original ==
    wt.mode = "retry" =>
        /\ wt.pre = "canceled" => (wt.log = <<>> /\ wt.pc = "done" /\ wt.ret = Canceled)
        /\ \A n \in WTCancellingFns :
              /\ \A m \in WTCalls("Begin") \cup WTCalls("Fn") : m <= n
              /\ wt.pc = "done" => wt.ret = Canceled

\* C33: RetryTransaction called with a cancelled context calls nothing and
\* returns the context's error. When a function cancels the context during
\* attempt a, no transaction is begun afterwards; the attempt in progress is
\* not interrupted, so the functions after the cancelling one are still
\* called when it returned nil, and only functions of attempt a. The result
\* is nil when attempt a committed, the context's error when attempt a
\* failed before the last of the retries, and the error of attempt a, which
\* is not the context's error, when attempt a failed and was the last.
C33_RetryTransactionCancel ==
    wt.mode = "retry" =>
        /\ wt.pre = "canceled" => (wt.log = <<>> /\ wt.pc = "done" /\ wt.ret = Canceled)
        /\ \A n \in WTCancellingFns :
              LET a == wt.log[n].a IN
              /\ \A m \in WTCalls("Begin") : m < n
              /\ \A m \in WTCalls("Fn") : m > n => wt.log[m].a = a
              /\ (wt.log[n].r = "nil" /\ wt.log[n].j < wt.nfns /\ wt.pc = "done") =>
                    \E m \in WTCalls("Fn") : m = n + 1 /\ wt.log[m].j = wt.log[n].j + 1
              /\ wt.pc = "done" =>
                    IF WTCommitted THEN wt.ret = Nil
                    ELSE IF a < wt.retries THEN wt.ret = Canceled
                    ELSE wt.ret = wt.err /\ wt.ret # Nil /\ ~Is(wt.ret, "context.Canceled")

C33_Witness ==
    /\ wt.mode = "retry" /\ wt.pc = "done" /\ wt.retries = MaxAttempts /\ wt.ret = Canceled
    /\ Cardinality(WTCalls("Begin")) = 2 /\ Cardinality(WTCalls("Rollback")) = 2
    /\ \E n \in WTCancellingFns : wt.log[n].a = 2 /\ wt.log[n].r = "E" /\ Len(wt.log) = n + 1

\* ------------------------------------------------------------ ValueRecorder: matching
\* The values presented so far to the matcher of name s, in order.
Presented(s) == SelectSeq(vr.hist, LAMBDA c : c.op = "Match" /\ c.name = s)
\* The calls Value(s) that returned, made after position n of the history.
ValuesAfter(s, n) == {k \in RecCalls("Value", s) : k > n /\ vr.hist[k].res = "ok"}

\* C34: for a recorded name, the first value presented to its matcher is
\* accepted and stored; every later value, presented to the matcher from
\* Record or from For, is accepted exactly when it has the type and the
\* value of the stored one; the stored value stays the first one presented,
\* and Value returns it (nil before any value was presented).
C34_MatcherSemantics ==
    \A s \in Names :
        LET p == Presented(s) IN
        /\ p # <<>> =>
              /\ p[1].res = "true"
              /\ s \in DOMAIN vr.m /\ vr.m[s] = [val |-> p[1].arg, valid |-> TRUE]
              /\ \A n \in 2..Len(p) :
                    (p[n].res = "true") <=> (p[n].arg.t = p[1].arg.t /\ p[n].arg.v = p[1].arg.v)
        /\ (p = <<>> /\ s \in DOMAIN vr.m) => vr.m[s] = ZeroCell
        /\ \A n \in RecCalls("Match", s) :
              \A k \in ValuesAfter(s, n) : vr.hist[k].out = p[1].arg
        /\ \A k \in RecCalls("Value", s) :
              (vr.hist[k].res = "ok" /\ \A n \in RecCalls("Match", s) : n > k) => vr.hist[k].out = NoValue

C34_Witness ==
    /\ Len(vr.hist) = 4
    /\ vr.hist[1].op = "Record" /\ vr.hist[1].name = "x"
    /\ vr.hist[2].op = "Match" /\ vr.hist[2].arg = [t |-> "int", v |-> 1] /\ vr.hist[2].res = "true"
    /\ vr.hist[3].op = "Match" /\ vr.hist[3].arg = [t |-> "int64", v |-> 1] /\ vr.hist[3].res = "false"
    /\ vr.hist[4].op = "Value" /\ vr.hist[4].name = "x" /\ vr.hist[4].out = [t |-> "int", v |-> 1]

\* C38: Record(s) and For(s) hand out the same matcher: For(s) returns it
\* as soon as Record(s) was called, whether or not a value is stored; when
\* the first value the matcher sees comes through For, it is accepted
\* whatever it is and becomes the recorded value, against which the values
\* presented later through Record are compared; a value coming through For
\* is compared only when a value was presented before it.
C38_ForBeforeRecord ==
    \A s \in Names :
        LET p == Presented(s) IN
        /\ \A n \in RecCalls("For", s) :
              (\E k \in RecCalls("Record", s) : k < n) => vr.hist[n].res = "ok"
        /\ (p # <<>> /\ p[1].via = "For") =>
              /\ p[1].res = "true"
              /\ vr.m[s].valid /\ vr.m[s].val = p[1].arg
              /\ \A n \in 2..Len(p) :
                    p[n].via = "Record" => ((p[n].res = "true") <=> DeepEqual(p[n].arg, p[1].arg))
        /\ \A n \in 1..Len(p) :
              (p[n].via = "For" /\ p[n].res = "false") => (n > 1 /\ ~DeepEqual(p[n].arg, p[1].arg))

C38_Witness ==
    /\ Len(vr.hist) = 4
    /\ vr.hist[1].op = "Record" /\ vr.hist[1].name = "y"
    /\ vr.hist[2].op = "For" /\ vr.hist[2].name = "y" /\ vr.hist[2].res = "ok"
    /\ vr.hist[3].op = "Match" /\ vr.hist[3].via = "For" /\ vr.hist[3].arg = [t |-> "int", v |-> 2]
    /\ vr.hist[3].res = "true"
    /\ vr.hist[4].op = "Match" /\ vr.hist[4].via = "Record" /\ vr.hist[4].arg = [t |-> "int", v |-> 1]
    /\ vr.hist[4].res = "false"
    /\ vr.m["y"].val = [t |-> "int", v |-> 2]

\* ------------------------------------------------------------ claims C35 ..
\* The positions of the log after which the attempt has no step left while
\* the caller's context is cancelled: a last step that cancelled the
\* context and returned nil, or the Begin of a call without steps when the
\* context was cancelled before Commit.
CancelledAtLastStep ==
    {n \in Calls("Step") : log[n].j = nfns /\ log[n].r = "nil" /\ log[n].why = "cancels"}
BegunWithoutSteps ==
    {n \in Calls("Begin") : nfns = 0 /\ log[n].r = "ok" /\ pc # "ready"
                               /\ (Len(log) > n => log[n + 1].st = "canceled")}

\* C35: when the last step of an attempt cancels the caller's context and
\* returns nil, or the call has no steps and the context is cancelled after
\* Begin, the next call of the attempt is Commit on the caller's (cancelled)
\* context, the attempt makes no Rollback, and what the attempt hands to the
\* scheduler is the result of Commit: nil when it succeeded, the wrapped
\* commit error otherwise.
C35_NoCheckBeforeCommit ==
    \A n \in CancelledAtLastStep \cup BegunWithoutSteps :
        LET a == log[n].a IN
        /\ CountIn("Rollback", a) = 0
        /\ Len(log) = n => (pc = "steps" /\ idx > nfns /\ tx = a)
        /\ Len(log) > n =>
              /\ log[n + 1].op = "Commit" /\ log[n + 1].a = a
              /\ log[n + 1].on = "caller"
              /\ log[n].op = "Step" => log[n + 1].st = "canceled"
              /\ Len(errs) >= a
              /\ errs[a] = CommitResult(log[n + 1].r = "ok")
              /\ (log[n + 1].r = "ok") => (pc = "done" /\ ret = Nil /\ Len(log) = n + 1)

C35_Witness ==
    /\ Returns /\ ret = Nil /\ ctx = "canceled" /\ nfns = MaxFns
    /\ Len(log) = MaxFns + 2
    /\ log[Len(log)].op = "Commit" /\ log[Len(log)].r = "ok" /\ log[Len(log)].st = "canceled"
    /\ log[Len(log) - 1].op = "Step" /\ log[Len(log) - 1].why = "cancels"

\* Step functions that return nil or the error of a context: one wrapping
\* context.Canceled, context.Canceled itself, or context.DeadlineExceeded.
ContextKinds == {"nil", "canceled", "canceledBare", "deadline"}

InitContextErrors ==
    /\ conn \in {"pool", "nil"}
    /\ conf \in BasicConfs
    /\ kinds = ContextKinds
    /\ pgx = NoPGX /\ newErr = Nil /\ pc = "start" /\ ctx = "live"
    /\ nfns = 0 /\ i = 0 /\ idx = 0 /\ tx = 0
    /\ err = Nil /\ ret = Nil /\ errs = <<>> /\ log = <<>>
    /\ calls = NoCalls /\ opened = 0 /\ uses = {}
    /\ vr = NoRecorder /\ rt = NoRetry /\ prev = <<>> /\ wt = NoWT

SpecContextErrors == InitContextErrors /\ [][Next]_vars

GraceConfs ==
    {<<GracePeriod(d)>> : d \in {-1, 0, 5}}
      \cup {<<GracePeriod(d), Retry(n, 1)>> : d \in {-1, 0, 5}, n \in 1..MaxAttempts}

InitGrace ==
    /\ conn \in {"pool", "nil"}
    /\ conf \in GraceConfs
    /\ kinds = {"nil", "E", "stop"}
    /\ pgx = NoPGX /\ newErr = Nil /\ pc = "start" /\ ctx = "live"
    /\ nfns = 0 /\ i = 0 /\ idx = 0 /\ tx = 0
    /\ err = Nil /\ ret = Nil /\ errs = <<>> /\ log = <<>>
    /\ calls = NoCalls /\ opened = 0 /\ uses = {}
    /\ vr = NoRecorder /\ rt = NoRetry /\ prev = <<>> /\ wt = NoWT

SpecGrace == InitGrace /\ [][Next]_vars

\* The attempts that have ended after a successful Begin without a Commit.
RolledBackAttempts == {a \in 1..Len(errs) : Opened(a) /\ CountIn("Commit", a) = 0}

\* C39: New accepts any grace period: with a connection it returns no error
\* and the executor holds the duration given, positive or not. With a
\* duration that is not positive every Rollback is issued on the
\* grace-period context with its deadline already passed; and whatever the
\* duration, an attempt that ends without Commit makes exactly one Rollback
\* call and no attempt makes more than one.
C39_GraceNotValidated ==
    /\ (conn = "pool" /\ pc # "start" /\ pgx # ZeroPGX) =>
          /\ newErr = Nil
          /\ pgx.gracePeriod = ConfiguredGrace
    /\ (pgx # ZeroPGX /\ ConfiguredGrace <= 0) =>
          \A n \in Calls("Rollback") : log[n].on = "grace" /\ log[n].st = "expired"
    /\ \A a \in RolledBackAttempts : CountIn("Rollback", a) = 1
    /\ \A a \in Attempts : CountIn("Rollback", a) <= 1

C39_Witness ==
    /\ ConfiguredGrace = -1 /\ pgx.gracePeriod = -1 /\ newErr = Nil
    /\ Returns /\ Len(errs) = MaxAttempts
    /\ Count("Rollback") = MaxAttempts
    /\ \E n \in Calls("Rollback") : log[n].why = "ctxdone" /\ log[n].st = "expired"
    /\ \E n \in Calls("Rollback") : log[n].why = "steperr" /\ log[n].st = "expired"

\* ------------------------------------------------------------ order of the options
\* The position of the last option of the kind opt after position k of
\* conf, 0 when there is none.
LastOpt(opt, k) ==
    LET ps == {n \in DOMAIN conf : n > k /\ conf[n].opt = opt}
    IN IF ps = {} THEN 0 ELSE CHOOSE n \in ps : \A m \in ps : m <= n

\* The retry policy the last writers leave: the last WithRetry gives the
\* whole policy (the default when there is none), the last Retry after it
\* gives attempts and delay.
LastWritten ==
    LET w == LastOpt("WithRetry", 0)
        r == LastOpt("Retry", w)
        whole == IF w = 0
                 THEN [Attempts |-> 1, Delay |-> DefaultDelay, Method |-> "IncrementalDelay"]
                 ELSE [Attempts |-> conf[w].n, Delay |-> conf[w].d, Method |-> conf[w].m]
    IN IF r = 0 THEN whole
       ELSE [Attempts |-> conf[r].n, Delay |-> conf[r].d, Method |-> whole.Method]

\* C40: the executor New returns holds, for every list of options, the
\* policy of the last writers: the last WithRetry replaces attempts, delay
\* and delay method together (a nil method included), a Retry after it
\* replaces attempts and delay and keeps the method; the attempt count is
\* raised to 1 once at the end when the last writer left it below 1; the
\* grace period is the one of the last GracePeriod (30s when there is
\* none) and the connection provider is the one handed to New, whatever
\* retry options were given.
C40_LastWriterWins ==
    pgx \notin {NoPGX, ZeroPGX} =>
        /\ pgx.pool = conn
        /\ pgx.gracePeriod = ConfiguredGrace
        /\ pgx.loop.Delay = LastWritten.Delay
        /\ pgx.loop.Method = LastWritten.Method
        /\ pgx.loop.Attempts = IF LastWritten.Attempts < 1 THEN 1 ELSE LastWritten.Attempts

C40_Witness ==
    /\ conf = <<Retry(2, 1), WithRetry(0, 0, "nil")>>
    /\ pgx = [pool |-> "pool", gracePeriod |-> DefaultGracePeriod,
              loop |-> [Attempts |-> 1, Delay |-> 0, Method |-> "nil"]]
    /\ Returns /\ Len(errs) = 1
====
